---------------------------- MODULE Spec2Model ----------------------------
(***************************************************************************)
(* EventFlow core: the operator library (eir/ops.py), the scheduler        *)
(* (runtime/scheduler.py, runtime/exec.py, eir/graph.py) and the runtime   *)
(* facade (eventflow-core/__init__.py, registry/registry.py, cli/ef.py).   *)
(*                                                                         *)
(* Conventions.  An event (t, c, v, meta) is a record [t, c, v, m].  Time  *)
(* is in nanoseconds.  Real values are held in thousandths (1.0 is 1000);  *)
(* the LIF decay factor is held in thousandths as well.  A metadata dict   *)
(* is a record over a fixed key set in which "" and -1 stand for an absent *)
(* key.  Each component has its own specification; the variables of the    *)
(* other components keep their idle values in it.                          *)
(***************************************************************************)
EXTENDS Integers, Sequences, FiniteSets, TLC

VARIABLES
    \* step_lif driven one input at a time
    lif_p,        \* the LIFState parameters (tau_m_ns, v_th, v_reset, r_m, ref_ns)
    lif_st,       \* the LIFState mutable fields (v, t_last_spike_ns, t_prev_ns)
    lif_in,       \* the inputs consumed so far
    lif_out,      \* the events yielded so far
    \* run_fixed_dt's bucket generator
    bucket_dt,    \* dt_ns
    bucket_src,   \* the whole input stream
    bucket_it,    \* the part of the input not yet consumed
    bucket_out,   \* the events yielded so far
    \* build_exec_nodes._fuse driven one heap operation at a time
    fuse_p,       \* the node parameters (win, minc)
    fuse_src,     \* the two input streams (a, b)
    it_a,         \* the part of stream a not yet pushed
    it_b,         \* the part of stream b not yet pushed
    heap,         \* the heapq list
    buf_a,        \* the sliding buffer of stream a
    buf_b,        \* the sliding buffer of stream b
    fuse_out,     \* the events yielded so far
    fuse_pc,      \* "push", "pop", "done" or "raised" (TypeError)
    \* run_event_mode called twice on one graph
    g,            \* the EIRGraph: nodes (insertion order) and edges (list)
    inputs,       \* the events bound to each input node, equal in both calls
    run_no,       \* which call is in progress (1 or 2)
    sched_pc,     \* "call", "loop", "returned" or "raised"
    sched_err,    \* the exception raised by the call, "" when none
    topo,         \* the list returned by g.topo()
    exec_state,   \* ExecNode.state of every lif node
    upstream,     \* upstream[nid][port]: the events bound to an input port
    outputs,      \* outputs[nid]
    topo_pos,     \* 1-based position in topo of the next node to evaluate
    calls,        \* how many times each node's operator ran in this call
    run_results,  \* what each finished call returned or raised
    \* the runtime facade: compile_and_run, Backend.run, the CLI's run
    fc_entry,     \* which entry point was called
    fc_req,       \* the backend argument ("auto" or a name)
    fc_prefer,    \* constraints["prefer_backends"], <<>> when absent
    fc_plan_in,   \* the plan handed in by the caller, None when absent
    fc_eir,       \* the EIR: validity, profile and time configuration
    fc_dcd,       \* the device capability descriptor of each backend
    fc_world,     \* what loads, whether the inputs validate, what executes
    fc_pc,        \* "start", "loop", "returned", "raised" or "exit"
    backend_order, \* the list _pick_backends returned
    fc_idx,       \* 1-based position in backend_order of the next candidate
    fc_log,       \* every load, validation, planning and execution so far
    fc_result,    \* what the entry point handed back
    \* one operator applied to its input streams
    ops_op,       \* the operator: kind and parameters
    ops_a,        \* the stream on the first input port
    ops_b,        \* the stream on port b (fuse only)
    ops_out,      \* the events the operator yielded
    ops_pc,       \* "ready", "done" or "raised"
    \* one call of the capability planner
    pl_eir,       \* the EIR handed to plan_cpu_sim
    pl_dcd,       \* the device capability descriptor
    pl_plan,      \* the plan returned, or the error raised
    pl_pc,        \* "call" or "done"
    \* one call of the trace comparator
    cmp_golden,   \* the golden trace: its header's time unit and its records
    cmp_candidate,\* the candidate trace
    cmp_eps_time_us,
    cmp_eps_numeric,  \* a double
    cmp_result,   \* the dict compare_traces_jsonl returns
    cmp_pc,       \* "call" or "done"
    \* one run of cpu-sim on input traces, or one validation of a trace file
    tr_entry,  \* "run_cpu_sim", "backend.run" or "validate"
    tr_inputs,  \* the input trace files, in the order given
    tr_jsonschema,  \* whether the jsonschema package is installed
    tr_out,  \* the trace file written, or None
    tr_result,  \* the dict run_cpu_sim returns, or the exception raised
    tr_issues,  \* the issues the validator returns
    tr_pc, \* "call", "written", "raised" or "done"
    \* one call of compile_and_run up to the end of EIR validation
    ve_eir,  \* the EIR object: its time configuration, nodes and edges
    ve_jsonschema,  \* whether the jsonschema package is installed
    ve_issues,  \* the issues validate_eir returns
    ve_pc, \* "call", "raised" or "planning"
    \* one graph saved to a file and loaded back
    sl_graph,  \* the EIRGraph saved: its nodes in insertion order, edges, metadata
    sl_obj,  \* the JSON object in the file, or None
    sl_result,  \* the graph load returns or the exception it raises, or None
    sl_pc, \* "save", "load" or "done"
    \* one kernel called with a parameter that may be out of its domain
    kp_call,  \* the call: kernel, its parameter (dt_ns or window), min_count, streams a and b
    kp_result,  \* the events produced and the exception raised, or None
    kp_pc, \* "call" or "done"
    \* one invocation of the ef command line
    cli_args,  \* the command and the state of the files and of the backend it meets
    cli_exit,  \* the exit status of the process, -1 while it runs
    cli_pc, \* "main" or "exit"
    \* one DVS trace given to coincidence_flow_from_jsonl and to the optical_flow graph
    flow_in,  \* the event records of the JSONL file: [ts, x, y, pol], ts in microseconds
    flow_p,  \* width, height, window_us, delay_us, edge_delay_us, min_count
    flow_out,  \* [events: the list coincidence_flow_from_jsonl returns], None before the call
    flow_pipe  \* the events of flow_e and flow_w after run_event_mode, None before the run

lifVars == <<lif_p, lif_st, lif_in, lif_out>>

bucketVars == <<bucket_dt, bucket_src, bucket_it, bucket_out>>

fuseVars == <<fuse_p, fuse_src, it_a, it_b, heap, buf_a, buf_b, fuse_out, fuse_pc>>

schedVars == <<g, inputs, run_no, sched_pc, sched_err, topo, exec_state, upstream,
               outputs, topo_pos, calls, run_results>>

facadeVars == <<fc_entry, fc_req, fc_prefer, fc_plan_in, fc_eir, fc_dcd, fc_world, fc_pc,
                backend_order, fc_idx, fc_log, fc_result>>

opsVars == <<ops_op, ops_a, ops_b, ops_out, ops_pc>>

planVars == <<pl_eir, pl_dcd, pl_plan, pl_pc>>

cmpVars == <<cmp_golden, cmp_candidate, cmp_eps_time_us, cmp_eps_numeric, cmp_result, cmp_pc>>

traceVars == <<tr_entry, tr_inputs, tr_jsonschema, tr_out, tr_result, tr_issues, tr_pc>>

eirVars == <<ve_eir, ve_jsonschema, ve_issues, ve_pc>>

serialVars == <<sl_graph, sl_obj, sl_result, sl_pc>>

kernelVars == <<kp_call, kp_result, kp_pc>>

cliVars == <<cli_args, cli_exit, cli_pc>>

flowVars == <<flow_in, flow_p, flow_out, flow_pipe>>

vars == <<lif_p, lif_st, lif_in, lif_out,
          bucket_dt, bucket_src, bucket_it, bucket_out,
          fuse_p, fuse_src, it_a, it_b, heap, buf_a, buf_b, fuse_out, fuse_pc,
          g, inputs, run_no, sched_pc, sched_err, topo, exec_state, upstream,
          outputs, topo_pos, calls, run_results,
          fc_entry, fc_req, fc_prefer, fc_plan_in, fc_eir, fc_dcd, fc_world, fc_pc,
          backend_order, fc_idx, fc_log, fc_result,
          ops_op, ops_a, ops_b, ops_out, ops_pc,
          pl_eir, pl_dcd, pl_plan, pl_pc,
          cmp_golden, cmp_candidate, cmp_eps_time_us, cmp_eps_numeric, cmp_result, cmp_pc,
          tr_entry, tr_inputs, tr_jsonschema, tr_out, tr_result, tr_issues, tr_pc,
          ve_eir, ve_jsonschema, ve_issues, ve_pc,
          sl_graph, sl_obj, sl_result, sl_pc,
          kp_call, kp_result, kp_pc,
          cli_args, cli_exit, cli_pc,
          flow_in, flow_p, flow_out, flow_pipe>>

\* the variables each component leaves alone
notLif == <<bucketVars, fuseVars, schedVars, facadeVars, opsVars, planVars, cmpVars, traceVars, eirVars, serialVars, kernelVars, cliVars, flowVars>>

notBucket == <<lifVars, fuseVars, schedVars, facadeVars, opsVars, planVars, cmpVars, traceVars, eirVars, serialVars, kernelVars, cliVars, flowVars>>

notFuse == <<lifVars, bucketVars, schedVars, facadeVars, opsVars, planVars, cmpVars, traceVars, eirVars, serialVars, kernelVars, cliVars, flowVars>>

notSched == <<lifVars, bucketVars, fuseVars, facadeVars, opsVars, planVars, cmpVars, traceVars, eirVars, serialVars, kernelVars, cliVars, flowVars>>

notFacade == <<lifVars, bucketVars, fuseVars, schedVars, opsVars, planVars, cmpVars, traceVars, eirVars, serialVars, kernelVars, cliVars, flowVars>>

notOps == <<lifVars, bucketVars, fuseVars, schedVars, facadeVars, planVars, cmpVars, traceVars, eirVars, serialVars, kernelVars, cliVars, flowVars>>

notPlan == <<lifVars, bucketVars, fuseVars, schedVars, facadeVars, opsVars, cmpVars, traceVars, eirVars, serialVars, kernelVars, cliVars, flowVars>>

notCmp == <<lifVars, bucketVars, fuseVars, schedVars, facadeVars, opsVars, planVars, traceVars, eirVars, serialVars, kernelVars, cliVars, flowVars>>

notTrace == <<lifVars, bucketVars, fuseVars, schedVars, facadeVars, opsVars, planVars, cmpVars, eirVars, serialVars, kernelVars, cliVars, flowVars>>

notEir == <<lifVars, bucketVars, fuseVars, schedVars, facadeVars, opsVars, planVars, cmpVars, traceVars, serialVars, kernelVars, cliVars, flowVars>>

notSerial == <<lifVars, bucketVars, fuseVars, schedVars, facadeVars, opsVars, planVars, cmpVars, traceVars, eirVars, kernelVars, cliVars, flowVars>>

notKernel == <<lifVars, bucketVars, fuseVars, schedVars, facadeVars, opsVars, planVars, cmpVars, traceVars, eirVars, serialVars, cliVars, flowVars>>

notCli == <<lifVars, bucketVars, fuseVars, schedVars, facadeVars, opsVars, planVars, cmpVars, traceVars, eirVars, serialVars, kernelVars, flowVars>>

notFlow == <<lifVars, bucketVars, fuseVars, schedVars, facadeVars, opsVars, planVars, cmpVars, traceVars, eirVars, serialVars, kernelVars, cliVars>>

-----------------------------------------------------------------------------
(* Bounds of the model *)

\* largest input timestamp, in milliseconds
MaxT == 3
\* longest input stream fed to one operator
MaxEvents == 3

(* Program constants *)

\* one millisecond in nanoseconds (_NS["ms"])
MS == 1000000
\* the value 1.0 in thousandths
ONE == 1000
\* LIFState.__init__: t_last_spike_ns = -10**18, scaled to fit TLC's integers;
\* every value below -(largest time + refractory) behaves alike
T_LAST_INIT == -1000000000
\* pow(2.71828, -0.1) in thousandths
DECAY_TENTH == 905
\* one second in nanoseconds (the 1e9 of step_stft)
NS_PER_S == 1000000000

-----------------------------------------------------------------------------
(* Events and metadata *)

NoMeta == [tag |-> 0, unit |-> "", syn |-> "", tau_s_ns |-> -1]

Meta(tag) == [NoMeta EXCEPT !.tag = tag]

Ev(t, c, v, m) == [t |-> t, c |-> c, v |-> v, m |-> m]

Times(s) == [i \in 1..Len(s) |-> s[i].t]

\* the finite sequences over S of length at most n
SeqsUpTo(S, n) == UNION {[1..k -> S] : k \in 0..n}

NonDecreasing(ts) == \A i \in 1..(Len(ts) - 1) : ts[i] <= ts[i + 1]

Max(a, b) == IF a >= b THEN a ELSE b

Min(a, b) == IF a <= b THEN a ELSE b

InSeq(x, s) == \E i \in 1..Len(s) : s[i] = x

Abs(x) == IF x < 0 THEN -x ELSE x

\* Python's round(n / d) for positive d: halves go to the even neighbour
RoundHalfEven(n, d) ==
    LET q == n \div d
        r == n % d
    IN  IF 2 * r < d THEN q
        ELSE IF 2 * r > d THEN q + 1
        ELSE IF q % 2 = 0 THEN q ELSE q + 1

-----------------------------------------------------------------------------
(* eir/ops.py: LIF neuron *)

\* LIFState.__init__
LIFState(tau_m_ns, v_th, v_reset, r_m, refractory_ns) ==
    [p  |-> [tau_m_ns |-> tau_m_ns, v_th |-> v_th, v_reset |-> v_reset,
             r_m |-> r_m, ref_ns |-> refractory_ns],
     st |-> [v |-> 0, t_last_spike_ns |-> T_LAST_INIT, t_prev_ns |-> 0]]

RECURSIVE DecayPow(_)
\* 0.905^k in thousandths, rounded down at each factor
DecayPow(k) == IF k <= 0 THEN ONE ELSE (DecayPow(k - 1) * DECAY_TENTH) \div ONE

\* alpha = pow(2.71828, -dt / tau_m_ns), 0.0 when tau_m_ns <= 0; the exponent
\* is taken in tenths of tau_m
Alpha(t, st, p) ==
    IF p.tau_m_ns <= 0 THEN 0
    ELSE DecayPow((10 * Max(0, t - st.t_prev_ns)) \div p.tau_m_ns)

\* state.v = state.v * alpha + state.r_m * val ; state.t_prev_ns = t
LifUpdate(e, st, p) ==
    [st EXCEPT !.v = (st.v * Alpha(e.t, st, p)) \div ONE + p.r_m * e.v,
               !.t_prev_ns = e.t]

RefractoryGuardStrict(t, st, p) == t - st.t_last_spike_ns < p.ref_ns

\* if t - state.t_last_spike_ns <= state.ref_ns: continue
RefractoryGuard(t, st, p) == t - st.t_last_spike_ns <= p.ref_ns

SpikeEvent(t) == Ev(t, 0, ONE, [NoMeta EXCEPT !.unit = "spike"])

\* the guard tested before the membrane update: a dropped input changes nothing
LifStepGuardFirst(e, st, p) ==
    LET u == LifUpdate(e, st, p) IN
    IF RefractoryGuard(e.t, st, p) THEN [st |-> st, out |-> <<>>]
    ELSE IF u.v >= p.v_th
         THEN [st  |-> [u EXCEPT !.v = p.v_reset, !.t_last_spike_ns = e.t],
               out |-> <<SpikeEvent(e.t)>>]
         ELSE [st |-> u, out |-> <<>>]

\* one iteration of step_lif's loop: the new state and the events yielded
LifStep(e, st, p) ==
    LET u == LifUpdate(e, st, p) IN
    IF RefractoryGuard(e.t, st, p) THEN [st |-> u, out |-> <<>>]
    ELSE IF u.v >= p.v_th
         THEN [st  |-> [u EXCEPT !.v = p.v_reset, !.t_last_spike_ns = e.t],
               out |-> <<SpikeEvent(e.t)>>]
         ELSE [st |-> u, out |-> <<>>]

RECURSIVE LifRun(_, _, _)
\* step_lif over a whole input: the final state and the output list
LifRun(s, st, p) ==
    IF s = <<>> THEN [st |-> st, out |-> <<>>]
    ELSE LET r == LifStep(Head(s), st, p)
             k == LifRun(Tail(s), r.st, p)
         IN  [st |-> k.st, out |-> r.out \o k.out]

-----------------------------------------------------------------------------
(* runtime/exec.py: fixed-step bucketing (pure-Python path) *)

\* the timestamp itself, not aligned to a bucket edge
BucketKeyRaw(e, dt_ns) == e.t

\* key=lambda e: (e[0] // dt_ns) * dt_ns
BucketKey(e, dt_ns) == (e.t \div dt_ns) * dt_ns

RECURSIVE GroupLen(_, _)
\* itertools.groupby: the length of the leading run of s whose keys equal
\* the key of its first element
GroupLen(s, dt_ns) ==
    IF Len(s) <= 1 THEN Len(s)
    ELSE IF BucketKey(s[2], dt_ns) = BucketKey(s[1], dt_ns)
         THEN 1 + GroupLen(Tail(s), dt_ns)
         ELSE 1

RECURSIVE GroupTotal(_, _)
\* total = 0.0 ; for ev in group: total += ev[2], continued from total
GroupTotal(group, total) ==
    IF group = <<>> THEN total
    ELSE GroupTotal(Tail(group), total + Head(group).v)

BucketEventAtKey(key, dt_ns, total) ==
    Ev(key, 0, total, [NoMeta EXCEPT !.unit = "bucket"])

\* yield (key + dt_ns, 0, total, {"unit": "bucket"})
BucketEvent(key, dt_ns, total) ==
    Ev(key + dt_ns, 0, total, [NoMeta EXCEPT !.unit = "bucket"])

\* one iteration of the loop over groupby: the event yielded and the rest
BucketStep(s, dt_ns) ==
    LET n == GroupLen(s, dt_ns) IN
    [ev   |-> BucketEvent(BucketKey(s[1], dt_ns), dt_ns,
                          GroupTotal(SubSeq(s, 1, n), 0)),
     rest |-> SubSeq(s, n + 1, Len(s))]

RECURSIVE Bucket(_, _)
\* list(bucket(it))
Bucket(s, dt_ns) ==
    IF s = <<>> THEN <<>>
    ELSE LET r == BucketStep(s, dt_ns) IN <<r.ev>> \o Bucket(r.rest, dt_ns)

-----------------------------------------------------------------------------
(* runtime/scheduler.py: coincidence fuse (pure-Python path, heapq) *)

\* the heap entry (t, (src, (t, c, v, meta)))
HeapItem(src, e) == [t |-> e.t, src |-> src, ev |-> e]

\* the comparison of a max-heap: the later entry comes first
ItemAfter(x, y) == IF x.t > y.t THEN "T" ELSE "F"

\* Python's x < y on two heap entries: "T", "F", or "E" for the TypeError
\* raised when the comparison reaches two unequal meta dicts
ItemLess(x, y) ==
    IF x.t # y.t THEN (IF x.t < y.t THEN "T" ELSE "F")
    ELSE IF x.src # y.src THEN (IF x.src = "a" THEN "T" ELSE "F")
    ELSE IF x.ev.c # y.ev.c THEN (IF x.ev.c < y.ev.c THEN "T" ELSE "F")
    ELSE IF x.ev.v # y.ev.v THEN (IF x.ev.v < y.ev.v THEN "T" ELSE "F")
    ELSE IF x.ev.m # y.ev.m THEN "E"
    ELSE "F"

RECURSIVE SiftDown(_, _, _, _)
\* heapq._siftdown; positions are 0-based as in the source
SiftDown(h, startpos, pos, newitem) ==
    IF pos > startpos
    THEN LET parentpos == (pos - 1) \div 2
             parent == h[parentpos + 1]
             lt == ItemLess(newitem, parent)
         IN  IF lt = "E" THEN [heap |-> h, err |-> TRUE]
             ELSE IF lt = "T"
                  THEN SiftDown([h EXCEPT ![pos + 1] = parent], startpos, parentpos, newitem)
                  ELSE [heap |-> [h EXCEPT ![pos + 1] = newitem], err |-> FALSE]
    ELSE [heap |-> [h EXCEPT ![pos + 1] = newitem], err |-> FALSE]

\* heapq.heappush(heap, item)
HeapPush(h, item) == SiftDown(Append(h, item), 0, Len(h), item)

RECURSIVE SiftUp(_, _, _, _)
\* heapq._siftup: the loop that bubbles the smaller child up, then _siftdown
SiftUp(h, startpos, pos, newitem) ==
    LET endpos == Len(h)
        childpos == 2 * pos + 1
        rightpos == childpos + 1
    IN  IF childpos < endpos
        THEN LET lt == IF rightpos < endpos
                       THEN ItemLess(h[childpos + 1], h[rightpos + 1])
                       ELSE "T"
                 pick == IF lt = "F" THEN rightpos ELSE childpos
             IN  IF lt = "E" THEN [heap |-> h, err |-> TRUE]
                 ELSE SiftUp([h EXCEPT ![pos + 1] = h[pick + 1]], startpos, pick, newitem)
        ELSE SiftDown([h EXCEPT ![pos + 1] = newitem], startpos, pos, newitem)

\* heappop's result: the entry returned, and the heap left by _siftup
HeapPopResult(item, r) == [item |-> item, heap |-> r.heap, err |-> r.err]

\* heapq.heappop(heap): the entry returned and the heap left
HeapPop(h) ==
    LET lastelt == h[Len(h)]
        rest == SubSeq(h, 1, Len(h) - 1)
    IN  IF rest = <<>> THEN [item |-> lastelt, heap |-> rest, err |-> FALSE]
        ELSE HeapPopResult(rest[1], SiftUp([rest EXCEPT ![1] = lastelt], 0, 0, lastelt))

\* the buffer is never trimmed
EvictNothing(buf, cutoff) == buf

\* buf[:] = [e for e in buf if e[0] >= cutoff]
Evict(buf, cutoff) == SelectSeq(buf, LAMBDA e : e.t >= cutoff)

CoincidenceEvent(t) == Ev(t, 0, ONE, [NoMeta EXCEPT !.unit = "coincidence"])

\* the body of "while heap" after the pop r: append, evict, maybe yield
FuseAfterPop(r, ba, bb, p) ==
    LET t == r.item.t
        ba1 == IF r.item.src = "a" THEN Append(ba, r.item.ev) ELSE ba
        bb1 == IF r.item.src = "a" THEN bb ELSE Append(bb, r.item.ev)
        ba2 == Evict(ba1, t - p.win)
        bb2 == Evict(bb1, t - p.win)
    IN  [heap |-> r.heap, err |-> r.err, buf_a |-> ba2, buf_b |-> bb2,
         out |-> IF Len(ba2) + Len(bb2) >= p.minc /\ ba2 # <<>> /\ bb2 # <<>>
                 THEN <<CoincidenceEvent(t)>> ELSE <<>>]

\* one iteration of "while heap": pop, append, evict, maybe yield
FusePopStep(h, ba, bb, p) == FuseAfterPop(HeapPop(h), ba, bb, p)

RECURSIVE FusePushAll(_, _, _)
\* the rest s of a push loop after the push r, which may have raised
FusePushRest(r, src, s) == IF r.err THEN r ELSE FusePushAll(r.heap, src, s)

\* for ... in it: heapq.heappush(heap, (t, (src, ev)))
FusePushAll(h, src, s) ==
    IF s = <<>> THEN [heap |-> h, err |-> FALSE]
    ELSE FusePushRest(HeapPush(h, HeapItem(src, Head(s))), src, Tail(s))

\* the events of one iteration followed by those of the later ones
FuseYield(out, k) == [out |-> out \o k.out, err |-> k.err]

RECURSIVE FusePopAll(_, _, _, _)
\* the rest of "while heap" after the iteration r, which may have raised
FusePopRest(r, p) ==
    IF r.err THEN [out |-> <<>>, err |-> TRUE]
    ELSE FuseYield(r.out, FusePopAll(r.heap, r.buf_a, r.buf_b, p))

\* the whole "while heap" loop: the events yielded, or the error
FusePopAll(h, ba, bb, p) ==
    IF h = <<>> THEN [out |-> <<>>, err |-> FALSE]
    ELSE FusePopRest(FusePopStep(h, ba, bb, p), p)

\* "while heap" entered with the heap the push loops left
FuseDrain(r, p) ==
    IF r.err THEN [out |-> <<>>, err |-> TRUE]
    ELSE FusePopAll(r.heap, <<>>, <<>>, p)

\* list(_fuse(it_a, it_b)): the output list, or err when the generator raises
Fuse(a, b, p) == FuseDrain(FusePushRest(FusePushAll(<<>>, "a", a), "b", b), p)

-----------------------------------------------------------------------------
(* tests/test_native_parity.py: the reference fuse over timestamps *)

RECURSIVE DropWhileOlder(_, _)
\* while buf and buf[0] < cutoff: buf.popleft()
DropWhileOlder(buf, cutoff) ==
    IF buf # <<>> /\ Head(buf) < cutoff THEN DropWhileOlder(Tail(buf), cutoff) ELSE buf

RECURSIVE PythonFuseRef(_, _, _, _, _, _, _)
\* python_fuse_ref from positions i, j (0-based) with the buffers ba, bb
PythonFuseRef(t_a, t_b, i, j, ba, bb, p) ==
    IF ~(i < Len(t_a) \/ j < Len(t_b)) THEN <<>>
    ELSE LET take_a == j >= Len(t_b) \/ (i < Len(t_a) /\ t_a[i + 1] <= t_b[j + 1])
             t == IF take_a THEN t_a[i + 1] ELSE t_b[j + 1]
             ba1 == DropWhileOlder(IF take_a THEN Append(ba, t) ELSE ba, t - p.win)
             bb1 == DropWhileOlder(IF take_a THEN bb ELSE Append(bb, t), t - p.win)
             emit == IF Len(ba1) + Len(bb1) >= p.minc /\ ba1 # <<>> /\ bb1 # <<>>
                     THEN <<t>> ELSE <<>>
         IN  emit \o PythonFuseRef(t_a, t_b, IF take_a THEN i + 1 ELSE i,
                                   IF take_a THEN j ELSE j + 1, ba1, bb1, p)

-----------------------------------------------------------------------------
(* Specification of step_lif *)

LifTimes == {k * MS : k \in 0..MaxT}
LifVals == {ONE \div 2, ONE}
LifParams ==
    {LIFState(tau, (9 * ONE) \div 10, 0, 1, ref).p :
        tau \in {0, 10 * MS}, ref \in {0, 2 * MS}}

\* the components a specification does not exercise stay idle
LifIdle ==
    /\ lif_p = LIFState(0, ONE, 0, 1, 0).p
    /\ lif_st = LIFState(0, ONE, 0, 1, 0).st
    /\ lif_in = <<>>
    /\ lif_out = <<>>

BucketIdle ==
    /\ bucket_dt = 1
    /\ bucket_src = <<>>
    /\ bucket_it = <<>>
    /\ bucket_out = <<>>

FuseIdle ==
    /\ fuse_p = [win |-> 1, minc |-> 1]
    /\ fuse_src = [a |-> <<>>, b |-> <<>>]
    /\ it_a = <<>>
    /\ it_b = <<>>
    /\ heap = <<>>
    /\ buf_a = <<>>
    /\ buf_b = <<>>
    /\ fuse_out = <<>>
    /\ fuse_pc = "done"

SchedIdle ==
    /\ g = [nodes |-> <<>>, edges |-> <<>>]
    /\ inputs = <<>>
    /\ run_no = 1
    /\ sched_pc = "returned"
    /\ sched_err = ""
    /\ topo = <<>>
    /\ exec_state = <<>>
    /\ upstream = <<>>
    /\ outputs = <<>>
    /\ topo_pos = 1
    /\ calls = <<>>
    /\ run_results = <<>>

OpsIdle ==
    /\ ops_op = [kind |-> "", p |-> <<>>]
    /\ ops_a = <<>>
    /\ ops_b = <<>>
    /\ ops_out = <<>>
    /\ ops_pc = "done"

\* Python's None where a plan is expected
None == [none |-> TRUE]

PlanIdle ==
    /\ pl_eir = None
    /\ pl_dcd = None
    /\ pl_plan = None
    /\ pl_pc = "done"

CmpIdle ==
    /\ cmp_golden = None
    /\ cmp_candidate = None
    /\ cmp_eps_time_us = 0
    /\ cmp_eps_numeric = None
    /\ cmp_result = None
    /\ cmp_pc = "done"

TraceIdle ==
    /\ tr_entry = ""
    /\ tr_inputs = <<>>
    /\ tr_jsonschema = FALSE
    /\ tr_out = None
    /\ tr_result = None
    /\ tr_issues = <<>>
    /\ tr_pc = "done"

EirIdle ==
    /\ ve_eir = None
    /\ ve_jsonschema = FALSE
    /\ ve_issues = <<>>
    /\ ve_pc = "raised"

SerialIdle ==
    /\ sl_graph = None
    /\ sl_obj = None
    /\ sl_result = None
    /\ sl_pc = "done"

KernelIdle ==
    /\ kp_call = None
    /\ kp_result = None
    /\ kp_pc = "done"

CliIdle ==
    /\ cli_args = None
    /\ cli_exit = -1
    /\ cli_pc = "exit"

FlowIdle ==
    /\ flow_in = <<>>
    /\ flow_p = None
    /\ flow_out = None
    /\ flow_pipe = None

FacadeIdle ==
    /\ fc_entry = ""
    /\ fc_req = ""
    /\ fc_prefer = <<>>
    /\ fc_plan_in = None
    /\ fc_eir = <<>>
    /\ fc_dcd = <<>>
    /\ fc_world = <<>>
    /\ fc_pc = "returned"
    /\ backend_order = <<>>
    /\ fc_idx = 1
    /\ fc_log = <<>>
    /\ fc_result = <<>>

InitLif ==
    /\ lif_p \in LifParams
    /\ lif_st = LIFState(0, ONE, 0, 1, 0).st
    /\ lif_in = <<>>
    /\ lif_out = <<>>
    /\ BucketIdle
    /\ FuseIdle
    /\ SchedIdle
    /\ FacadeIdle
    /\ OpsIdle
    /\ PlanIdle
    /\ CmpIdle
    /\ TraceIdle
    /\ EirIdle
    /\ SerialIdle
    /\ KernelIdle
    /\ CliIdle
    /\ FlowIdle

\* the generator consumes one input event
LifConsume ==
    /\ Len(lif_in) < MaxEvents
    /\ \E t \in LifTimes, val \in LifVals :
          LET e == Ev(t, 0, val, NoMeta)
              r == LifStep(e, lif_st, lif_p)
          IN  /\ lif_in' = Append(lif_in, e)
              /\ lif_st' = r.st
              /\ lif_out' = lif_out \o r.out
    /\ UNCHANGED <<lif_p, notLif>>

NextLif == LifConsume

SpecLif == InitLif /\ [][NextLif]_vars

-----------------------------------------------------------------------------
(* Claims about step_lif *)

\* the step just taken consumed one input
LifConsumed == Len(lif_in') = Len(lif_in) + 1

\* the input consumed by the step just taken
LifArrived == lif_in'[Len(lif_in')]

\* the step just taken yielded one spike at the arriving input's time
LifEmitted ==
    /\ Len(lif_out') = Len(lif_out) + 1
    /\ lif_out'[Len(lif_out')] = SpikeEvent(LifArrived.t)

LifScenarioInputs == <<Ev(MS, 0, ONE, NoMeta), Ev(2 * MS, 0, ONE, NoMeta), Ev(3 * MS, 0, ONE, NoMeta)>>

LifScenario ==
    /\ lif_p = LIFState(10 * MS, (9 * ONE) \div 10, 0, 1, 2 * MS).p
    /\ lif_in = LifScenarioInputs

\* C8: an input arriving at t with t - t_lastsp <= refractory never yields a
\* spike, whatever v is; any two emitted spikes are more than refractory
\* apart; inputs 1.0 at 1, 2, 3 ms with v_th = 0.9 and refractory = 2 ms
\* yield exactly one spike, at 1 ms.
C8_RefractoryBlocksSpike ==
    /\ [][(LifConsumed /\ LifArrived.t - lif_st.t_last_spike_ns <= lif_p.ref_ns)
             => lif_out' = lif_out]_vars
    /\ [](\A i, j \in 1..Len(lif_out) :
             i < j => lif_out[j].t - lif_out[i].t > lif_p.ref_ns)
    /\ [](LifScenario => lif_out = <<SpikeEvent(MS)>>)

\* the 3 ms input of the scenario was dropped although v >= v_th
C8_Witness ==
    /\ LifScenario
    /\ lif_st.v >= lif_p.v_th
    /\ lif_st.t_last_spike_ns = MS
    /\ Len(lif_out) = 1

\* C9 as stated: with refractory = 0 an input arriving at the timestamp of
\* the previous spike yields a second spike at that timestamp exactly when
\* v >= v_th after that input's update.
C9_Original ==
    [][(LifConsumed /\ lif_p.ref_ns = 0 /\ LifArrived.t = lif_st.t_last_spike_ns)
          => (LifEmitted <=> LifUpdate(LifArrived, lif_st, lif_p).v >= lif_p.v_th)]_vars

\* C9 as amended: with refractory = 0 an input arriving at the timestamp of
\* the previous spike is dropped by the guard (0 <= 0) even when v >= v_th:
\* only its membrane update is applied; an input at a later timestamp yields
\* a spike exactly when v >= v_th after its update.
C9_SameTimestampDropped ==
    [][(LifConsumed /\ lif_p.ref_ns = 0)
          => /\ LifArrived.t = lif_st.t_last_spike_ns
                  => /\ lif_out' = lif_out
                     /\ lif_st' = LifUpdate(LifArrived, lif_st, lif_p)
             /\ LifArrived.t > lif_st.t_last_spike_ns
                  => (LifEmitted <=> LifUpdate(LifArrived, lif_st, lif_p).v >= lif_p.v_th)]_vars

\* refractory = 0, the last input arrived at the timestamp of the last spike
\* and left v >= v_th without a second spike
C9_Witness ==
    /\ lif_p.ref_ns = 0
    /\ Len(lif_in) >= 2
    /\ lif_in[Len(lif_in)].t = lif_st.t_last_spike_ns
    /\ lif_st.v >= lif_p.v_th
    /\ Len(lif_out) = 1

\* the input consumed by the step just taken was dropped by the guard
LifDropped == RefractoryGuard(LifArrived.t, lif_st, lif_p)

\* C38: an input dropped by the refractory guard still applies the membrane
\* update (v <- v*alpha + r_m*x, t_prev <- t) and leaves t_lastsp unchanged;
\* v is set to v_reset only when a spike is emitted, and every other input
\* leaves v at the updated value, so the charge of a dropped input is part
\* of the v that decides the first spike after the refractory period.
C38_DroppedInputStillIntegrates ==
    [][LifConsumed =>
          LET u == LifUpdate(LifArrived, lif_st, lif_p) IN
          /\ LifDropped =>
                /\ lif_st'.v = u.v
                /\ lif_st'.t_prev_ns = LifArrived.t
                /\ lif_st'.t_last_spike_ns = lif_st.t_last_spike_ns
                /\ lif_out' = lif_out
          /\ LifEmitted =>
                /\ ~LifDropped
                /\ u.v >= lif_p.v_th
                /\ lif_st'.v = lif_p.v_reset
                /\ lif_st'.t_last_spike_ns = LifArrived.t
          /\ ~LifEmitted =>
                /\ lif_out' = lif_out
                /\ lif_st' = u]_vars

\* three inputs: a spike, an input dropped inside the refractory period, and
\* a second spike from an input that alone is below the threshold
C38_Witness ==
    /\ Len(lif_in) = 3
    /\ lif_p.ref_ns > 0
    /\ lif_in[2].t - lif_in[1].t <= lif_p.ref_ns
    /\ lif_in[3].t - lif_in[1].t > lif_p.ref_ns
    /\ lif_out = <<SpikeEvent(lif_in[1].t), SpikeEvent(lif_in[3].t)>>
    /\ lif_p.r_m * lif_in[3].v < lif_p.v_th

-----------------------------------------------------------------------------
(* Specification of fixed-step bucketing *)

HALF_MS == MS \div 2
BucketTimes == {k * HALF_MS : k \in 0..MaxT}
BucketDts == {1, HALF_MS, MS}
BucketEvents == {Ev(t, c, v, NoMeta) : t \in BucketTimes, c \in {0, 1}, v \in {ONE \div 2, ONE}}

InitBucket ==
    /\ bucket_dt \in BucketDts
    /\ bucket_src \in {s \in SeqsUpTo(BucketEvents, MaxEvents) : NonDecreasing(Times(s))}
    /\ bucket_it = bucket_src
    /\ bucket_out = <<>>
    /\ LifIdle
    /\ FuseIdle
    /\ SchedIdle
    /\ FacadeIdle
    /\ OpsIdle
    /\ PlanIdle
    /\ CmpIdle
    /\ TraceIdle
    /\ EirIdle
    /\ SerialIdle
    /\ KernelIdle
    /\ CliIdle
    /\ FlowIdle

\* the generator is resumed: it consumes one group and yields one event
BucketGroup ==
    /\ bucket_it # <<>>
    /\ LET r == BucketStep(bucket_it, bucket_dt) IN
          /\ bucket_out' = Append(bucket_out, r.ev)
          /\ bucket_it' = r.rest
    /\ UNCHANGED <<bucket_dt, bucket_src, notBucket>>

NextBucket == BucketGroup

SpecBucket == InitBucket /\ [][NextBucket]_vars

-----------------------------------------------------------------------------
(* Claims about fixed-step bucketing *)

\* k = floor(t / dt) of the i-th input
BucketIndex(i) == bucket_src[i].t \div bucket_dt

\* the positions at which a maximal run of equal k starts
RunStarts ==
    {i \in 1..Len(bucket_src) : i = 1 \/ BucketIndex(i) # BucketIndex(i - 1)}

\* the last position of the run that starts at i
RunEnd(i) ==
    CHOOSE j \in i..Len(bucket_src) :
        /\ \A m \in i..j : BucketIndex(m) = BucketIndex(i)
        /\ j = Len(bucket_src) \/ BucketIndex(j + 1) # BucketIndex(i)

RECURSIVE SumValues(_, _)
\* v[i] + ... + v[j] of the input
SumValues(i, j) == IF i > j THEN 0 ELSE SumValues(i, j - 1) + bucket_src[j].v

BucketDone == bucket_it = <<>>

\* C10: for a non-decreasing input and dt > 0, each maximal run of
\* consecutive inputs sharing k = floor(t / dt) yields exactly one event, at
\* (k + 1) * dt, whose value is the sum of the run's values; the output has
\* one event per run, in run order; an empty input yields an empty output.
C10_BucketPerRun ==
    BucketDone =>
        /\ Len(bucket_out) = Cardinality(RunStarts)
        /\ \A i \in RunStarts :
              LET j == Cardinality({r \in RunStarts : r <= i}) IN
              /\ bucket_out[j].t = (BucketIndex(i) + 1) * bucket_dt
              /\ bucket_out[j].v = SumValues(i, RunEnd(i))
        /\ (bucket_src = <<>> => bucket_out = <<>>)

\* an input with a run of two events followed by a run of one
C10_Witness ==
    /\ BucketDone
    /\ Len(bucket_src) = 3
    /\ bucket_dt = MS
    /\ BucketIndex(1) = BucketIndex(2)
    /\ BucketIndex(2) # BucketIndex(3)
    /\ bucket_src[1].t # bucket_src[2].t
    /\ Len(bucket_out) = 2
    /\ bucket_out[1].v = bucket_src[1].v + bucket_src[2].v

\* the input carries events on more than one channel
MultiChannel ==
    \E i, j \in 1..Len(bucket_src) : bucket_src[i].c # bucket_src[j].c

\* the positions of the inputs of bucket k on channel c
BucketChannelMembers(k, c) ==
    {i \in 1..Len(bucket_src) : BucketIndex(i) = k /\ bucket_src[i].c = c}

RECURSIVE SumOver(_)
\* the sum of the values of the inputs at the positions in S
SumOver(S) ==
    IF S = {} THEN 0
    ELSE LET i == CHOOSE x \in S : TRUE IN bucket_src[i].v + SumOver(S \ {i})

\* the (bucket, channel) pairs that occur in the input
BucketChannels ==
    {<<BucketIndex(i), bucket_src[i].c>> : i \in 1..Len(bucket_src)}

\* C11: when the input carries events on more than one channel, the events
\* of a bucket are summed separately per channel and one event per
\* (bucket, channel) is emitted on that channel at (k + 1) * dt; only an
\* input without multiple channels is reduced onto channel 0.
C11_PerChannelBuckets ==
    BucketDone =>
        IF MultiChannel
        THEN /\ Len(bucket_out) = Cardinality(BucketChannels)
             /\ \A kc \in BucketChannels :
                   \E j \in 1..Len(bucket_out) :
                      /\ bucket_out[j].t = (kc[1] + 1) * bucket_dt
                      /\ bucket_out[j].c = kc[2]
                      /\ bucket_out[j].v = SumOver(BucketChannelMembers(kc[1], kc[2]))
        ELSE \A j \in 1..Len(bucket_out) : bucket_out[j].c = 0

\* what the generator does instead: every output is on channel 0, whatever
\* the channels of the input
BucketAlwaysOnChannelZero ==
    \A j \in 1..Len(bucket_out) : bucket_out[j].c = 0

\* the input's timestamps are strictly increasing
StrictlyIncreasingInput ==
    \A i \in 1..(Len(bucket_src) - 1) : bucket_src[i].t < bucket_src[i + 1].t

\* the output repeats the input, one step later
OutputIsInputShifted ==
    /\ Len(bucket_out) = Len(bucket_src)
    /\ \A i \in 1..Len(bucket_src) :
          /\ bucket_out[i].v = bucket_src[i].v
          /\ bucket_out[i].t = bucket_src[i].t + 1

\* C12 as stated: for every non-decreasing input, repeated timestamps
\* included, and dt_ns = 1, the output has the length of the input and
\* v_out[i] = v[i], t_out[i] = t[i] + 1.
C12_Original ==
    (BucketDone /\ bucket_dt = 1) => OutputIsInputShifted

\* C12: for dt_ns = 1 and strictly increasing timestamps the output has the
\* length of the input and v_out[i] = v[i], t_out[i] = t[i] + 1; inputs
\* that repeat a timestamp are merged into one output per distinct
\* timestamp, so the output is then shorter than the input.
C12_UnitDtStrictlyIncreasing ==
    (BucketDone /\ bucket_dt = 1) =>
        /\ StrictlyIncreasingInput => OutputIsInputShifted
        /\ Len(bucket_out) = Cardinality({bucket_src[i].t : i \in 1..Len(bucket_src)})

\* three inputs at three timestamps, bucketed with dt_ns = 1
C12_Witness ==
    /\ BucketDone
    /\ bucket_dt = 1
    /\ Len(bucket_src) = 3
    /\ StrictlyIncreasingInput
    /\ Len(bucket_out) = 3
    /\ bucket_out[3].t = bucket_src[3].t + 1

-----------------------------------------------------------------------------
(* Specification of the coincidence fuse *)

\* largest timestamp and longest stream fed to the fuse
MaxFuseT == 2
MaxFuseLen == 2

FuseTimes == 0..MaxFuseT
\* stream a carries two distinct meta dicts, stream b one
FuseEventsA == {Ev(t, 0, ONE, Meta(tag)) : t \in FuseTimes, tag \in {1, 2}}
FuseEventsB == {Ev(t, 0, ONE, Meta(1)) : t \in FuseTimes}
FuseParams == {[win |-> w, minc |-> m] : w \in {1, 2}, m \in {1, 2, 3}}

InitFuse ==
    /\ fuse_p \in FuseParams
    /\ fuse_src \in
          {[a |-> a, b |-> b] :
              a \in {s \in SeqsUpTo(FuseEventsA, MaxFuseLen) : NonDecreasing(Times(s))},
              b \in {s \in SeqsUpTo(FuseEventsB, MaxFuseLen) : NonDecreasing(Times(s))}}
    /\ it_a = fuse_src.a
    /\ it_b = fuse_src.b
    /\ heap = <<>>
    /\ buf_a = <<>>
    /\ buf_b = <<>>
    /\ fuse_out = <<>>
    /\ fuse_pc = "push"
    /\ LifIdle
    /\ BucketIdle
    /\ SchedIdle
    /\ FacadeIdle
    /\ OpsIdle
    /\ PlanIdle
    /\ CmpIdle
    /\ TraceIdle
    /\ EirIdle
    /\ SerialIdle
    /\ KernelIdle
    /\ CliIdle
    /\ FlowIdle

\* for t, c, v, meta in it_a: heapq.heappush(heap, (t, ("a", ...)))
FusePushA ==
    /\ fuse_pc = "push"
    /\ it_a # <<>>
    /\ LET r == HeapPush(heap, HeapItem("a", Head(it_a))) IN
          /\ heap' = r.heap
          /\ fuse_pc' = IF r.err THEN "raised" ELSE "push"
    /\ it_a' = Tail(it_a)
    /\ UNCHANGED <<fuse_p, fuse_src, it_b, buf_a, buf_b, fuse_out, notFuse>>

\* for t, c, v, meta in it_b: heapq.heappush(heap, (t, ("b", ...)))
FusePushB ==
    /\ fuse_pc = "push"
    /\ it_a = <<>>
    /\ it_b # <<>>
    /\ LET r == HeapPush(heap, HeapItem("b", Head(it_b))) IN
          /\ heap' = r.heap
          /\ fuse_pc' = IF r.err THEN "raised" ELSE "push"
    /\ it_b' = Tail(it_b)
    /\ UNCHANGED <<fuse_p, fuse_src, it_a, buf_a, buf_b, fuse_out, notFuse>>

\* both inputs are exhausted: the generator enters "while heap"
FuseEnterLoop ==
    /\ fuse_pc = "push"
    /\ it_a = <<>>
    /\ it_b = <<>>
    /\ fuse_pc' = "pop"
    /\ UNCHANGED <<fuse_p, fuse_src, it_a, it_b, heap, buf_a, buf_b, fuse_out, notFuse>>

\* one iteration of "while heap"
FusePop ==
    /\ fuse_pc = "pop"
    /\ heap # <<>>
    /\ LET r == FusePopStep(heap, buf_a, buf_b, fuse_p) IN
          IF r.err
          THEN /\ fuse_pc' = "raised"
               /\ UNCHANGED <<heap, buf_a, buf_b, fuse_out>>
          ELSE /\ heap' = r.heap
               /\ buf_a' = r.buf_a
               /\ buf_b' = r.buf_b
               /\ fuse_out' = fuse_out \o r.out
               /\ fuse_pc' = "pop"
    /\ UNCHANGED <<fuse_p, fuse_src, it_a, it_b, notFuse>>

\* the heap is empty: the generator returns
FuseReturn ==
    /\ fuse_pc = "pop"
    /\ heap = <<>>
    /\ fuse_pc' = "done"
    /\ UNCHANGED <<fuse_p, fuse_src, it_a, it_b, heap, buf_a, buf_b, fuse_out, notFuse>>

NextFuse == FusePushA \/ FusePushB \/ FuseEnterLoop \/ FusePop \/ FuseReturn

SpecFuse == InitFuse /\ [][NextFuse]_vars

-----------------------------------------------------------------------------
(* Claims about the coincidence fuse *)

FuseFinished == fuse_pc \in {"done", "raised"}

\* the reference procedure on the timestamps of the two inputs
FuseReference ==
    PythonFuseRef(Times(fuse_src.a), Times(fuse_src.b), 0, 0, <<>>, <<>>, fuse_p)

\* C7: for all non-decreasing streams a and b, window > 0 and min_count >= 1
\* the fuse operator emits exactly the timestamp sequence of the reference
\* procedure (merge by time, a before b on ties, evict entries older than
\* t - window, emit when both buffers are non-empty and hold >= min_count).
C7_FuseMatchesReference ==
    FuseFinished => (fuse_pc = "done" /\ Times(fuse_out) = FuseReference)

\* what the code does satisfy: a run that ends without the TypeError emits
\* the reference's timestamps, and the step-wise generator agrees with Fuse
FuseMatchesReferenceUnlessRaised ==
    /\ fuse_pc = "done" => Times(fuse_out) = FuseReference
    /\ FuseFinished =>
          LET r == Fuse(fuse_src.a, fuse_src.b, fuse_p) IN
          /\ r.err <=> fuse_pc = "raised"
          /\ ~r.err => r.out = fuse_out

\* stream s holds two events equal in timestamp, channel and value whose
\* meta dicts differ
TwinsWithUnequalMeta(s) ==
    \E i, j \in 1..Len(s) :
        /\ i < j
        /\ s[i].t = s[j].t /\ s[i].c = s[j].c /\ s[i].v = s[j].v
        /\ s[i].m # s[j].m

\* C36: the fuse operator completes without raising for every pair of
\* non-decreasing input streams, including a stream that holds two events
\* with identical timestamp, channel and value.
C36_FuseNeverRaises == fuse_pc # "raised"

\* what the code does satisfy: the generator raises only on a stream that
\* holds two events equal in timestamp, channel and value with unequal meta
\* dicts, and two such events with equal meta dicts do not make it raise
FuseRaisesOnlyOnUnequalMeta ==
    fuse_pc = "raised" =>
        (TwinsWithUnequalMeta(fuse_src.a) \/ TwinsWithUnequalMeta(fuse_src.b))

\* every event of a differs in time from every event of b by more than
\* the window
SupportsSeparated ==
    \A i \in 1..Len(fuse_src.a) : \A j \in 1..Len(fuse_src.b) :
        Abs(fuse_src.a[i].t - fuse_src.b[j].t) > fuse_p.win

\* C15: if the time supports of streams a and b are disjoint and separated
\* by more than the window, the fuse operator emits no event, for every
\* min_count >= 1.
C15_SeparatedSupportsEmitNothing ==
    SupportsSeparated => fuse_out = <<>>

\* a finished fuse of two non-empty separated streams, with a min_count
\* that one stream alone reaches
C15_Witness ==
    /\ fuse_pc = "done"
    /\ fuse_src.a # <<>>
    /\ fuse_src.b # <<>>
    /\ SupportsSeparated
    /\ fuse_p.minc = 1
    /\ fuse_out = <<>>

-----------------------------------------------------------------------------
(* eir/ops.py: operator definitions and the stateless steps *)

\* DelayLine(name, delay).as_op(), the delay already in nanoseconds
DelayLine(delay_ns) == [kind |-> "delay", p |-> [delay_ns |-> delay_ns]]

\* LIFNeuron(name, tau_m, v_th, refractory=...).as_op(); v_reset and r_m keep
\* their defaults 0.0 and 1.0
LIFNeuron(tau_m_ns, v_th, refractory_ns) ==
    [kind |-> "lif", p |-> LIFState(tau_m_ns, v_th, 0, 1, refractory_ns).p]

\* ExpSynapse(name, tau_s, weight).as_op()
ExpSynapse(tau_s_ns, weight) ==
    [kind |-> "exp_syn", p |-> [tau_s_ns |-> tau_s_ns, weight |-> weight]]

\* EventFuse(name, window, min_count).as_op()
EventFuse(window_ns, min_count) ==
    [kind |-> "fuse", p |-> [win |-> window_ns, minc |-> min_count]]

\* yield (t, ch, weight * val, {**meta, "syn": "exp", "tau_s_ns": tau_s_ns})
StepExpSyn(s, tau_s_ns, weight) ==
    [i \in 1..Len(s) |->
        Ev(s[i].t, s[i].c, (weight * s[i].v) \div ONE,
           [s[i].m EXCEPT !.syn = "exp", !.tau_s_ns = tau_s_ns])]

\* yield (t + delay_ns, ch, val, meta)
StepDelay(s, delay_ns) ==
    [i \in 1..Len(s) |-> Ev(s[i].t + delay_ns, s[i].c, s[i].v, s[i].m)]

RECURSIVE Gcd(_, _)
Gcd(a, b) == IF b = 0 THEN a ELSE Gcd(b, a % b)

\* round(a * b / d) for positive b and d, with b / d in lowest terms so that
\* the product stays within the integers of the model
RoundMulDiv(a, b, d) == RoundHalfEven(a * (b \div Gcd(b, d)), d \div Gcd(b, d))

\* STFT(...).as_op(): n_fft, hop, sample_rate_hz and window
STFT(n_fft, hop_ns, sample_rate_hz, window) ==
    [kind |-> "stft",
     p |-> [n_fft |-> n_fft, hop_ns |-> hop_ns, sample_rate_hz |-> sample_rate_hz,
            window |-> window]]

\* MelBands(...).as_op(), with the filter bank build_mel_filters made of it
MelBands(filters, n_bins, log) ==
    [kind |-> "mel", p |-> [filters |-> filters, n_bins |-> n_bins, log |-> log]]

\* XYToChannel(...).as_op()
XYToChannel(width, height) ==
    [kind |-> "xy_to_ch", p |-> [width |-> width, height |-> height]]

\* ShiftXY(...).as_op()
ShiftXY(dx, dy, width, height) ==
    [kind |-> "shift_xy", p |-> [dx |-> dx, dy |-> dy, width |-> width, height |-> height]]

\* _hann_window(N) for N <= 2, and the rectangular window otherwise:
\* 0.5 - 0.5 * cos(2 * pi * n / (N - 1)) is 0 at n = 0 and at n = N - 1
HannWindow(N, window) ==
    IF window = "hann" /\ N > 1 THEN [n \in 1..N |-> 0] ELSE [n \in 1..N |-> ONE]

\* samples.get(idx, 0.0)
SampleGet(samples, idx) == IF idx \in DOMAIN samples THEN samples[idx] ELSE 0

\* the magnitude of bin k of a frame of one or two samples: |x0| for one
\* sample, |x0 + x1| for bin 0 and |x0 - x1| for bin 1 of two
DftMag(frame, k) ==
    IF Len(frame) = 1 THEN Abs(frame[1])
    ELSE IF k = 0 THEN Abs(frame[1] + frame[2])
    ELSE Abs(frame[1] - frame[2])

\* t_frame_ns = int(round((start_idx + N) * 1e9 / sr))
FrameTime(start_idx, N, sr) == RoundMulDiv(start_idx + N, NS_PER_S, sr)

\* emit_frame(start_idx): one event per bin k in 0..N // 2
EmitFrame(samples, start_idx, N, sr, w) ==
    [j \in 1..((N \div 2) + 1) |->
        Ev(FrameTime(start_idx, N, sr), j - 1,
           DftMag([n \in 1..N |-> (SampleGet(samples, start_idx + n - 1) * w[n]) \div ONE],
                  j - 1),
           [unit |-> "mag", n_fft |-> N])]

\* i = int(round((t_ns * sr) / 1e9))
SampleIndex(e, sr) == RoundMulDiv(e.t, sr, NS_PER_S)

RECURSIVE StftLoop(_, _, _, _, _, _, _, _)
RECURSIVE StftEmit(_, _, _, _, _, _, _, _)
\* while last_idx >= next_start + n_fft - 1: emit the frame, advance by hop
StftEmit(s, samples, last_idx, next_start, N, hop_samples, sr, w) ==
    IF last_idx >= next_start + N - 1
    THEN EmitFrame(samples, next_start, N, sr, w)
            \o StftEmit(s, samples, last_idx, next_start + hop_samples, N, hop_samples, sr, w)
    ELSE StftLoop(s, samples, last_idx, next_start, N, hop_samples, sr, w)

\* for t_ns, ch, val, meta in inputs: store the sample, emit what is complete
StftLoop(s, samples, last_idx, next_start, N, hop_samples, sr, w) ==
    IF s = <<>> THEN <<>>
    ELSE StftEmit(Tail(s),
                  (SampleIndex(Head(s), sr) :> Head(s).v) @@ samples,
                  Max(last_idx, SampleIndex(Head(s), sr)),
                  next_start, N, hop_samples, sr, w)

\* step_stft
StepStft(s, n_fft, hop_ns, sample_rate_hz, window) ==
    StftLoop(s, <<>>, -1, 0, n_fft,
             Max(1, RoundMulDiv(hop_ns, sample_rate_hz, NS_PER_S)),
             sample_rate_hz, HannWindow(n_fft, window))

RECURSIVE WeightedSum(_, _)
\* e = sum of spec[k] * filt[k] over the bins
WeightedSum(spec, filt) ==
    IF spec = <<>> THEN 0
    ELSE (Head(spec) * Head(filt)) \div ONE + WeightedSum(Tail(spec), Tail(filt))

\* flush_spec(ts) without the logarithm: one event per mel band
FlushSpec(ts, spec, filters) ==
    [m \in 1..Len(filters) |-> Ev(ts, m - 1, WeightedSum(spec, filters[m]), [unit |-> "mel"])]

\* if 0 <= ch < n_bins: spec[ch] = val
SpecStore(spec, e, n_bins) ==
    IF 0 <= e.c /\ e.c < n_bins THEN [spec EXCEPT ![e.c + 1] = e.v] ELSE spec

RECURSIVE MelLoop(_, _, _, _, _)
\* the loop of step_mel once current_t is set, and the flush after it
MelLoop(s, current_t, spec, filters, n_bins) ==
    IF s = <<>> THEN FlushSpec(current_t, spec, filters)
    ELSE IF Head(s).t # current_t
    THEN FlushSpec(current_t, spec, filters)
            \o MelLoop(Tail(s), Head(s).t,
                       SpecStore([k \in 1..n_bins |-> 0], Head(s), n_bins), filters, n_bins)
    ELSE MelLoop(Tail(s), current_t, SpecStore(spec, Head(s), n_bins), filters, n_bins)

\* step_mel with log = False; current_t is None until the first input
StepMel(s, filters, n_bins) ==
    IF s = <<>> THEN <<>>
    ELSE MelLoop(s, Head(s).t, [k \in 1..n_bins |-> 0], filters, n_bins)

RECURSIVE StepXyToCh(_, _, _)
\* step_xy_to_ch: meta is [x, y], -1 standing for an absent key
StepXyToCh(s, width, height) ==
    IF s = <<>> THEN <<>>
    ELSE IF /\ 0 <= Head(s).m.x /\ Head(s).m.x <= width - 1
            /\ 0 <= Head(s).m.y /\ Head(s).m.y <= height - 1
    THEN <<Ev(Head(s).t, Head(s).m.y * width + Head(s).m.x, Head(s).v,
              [x |-> Head(s).m.x, y |-> Head(s).m.y, w |-> width, h |-> height])>>
            \o StepXyToCh(Tail(s), width, height)
    ELSE StepXyToCh(Tail(s), width, height)

\* ch_out = ny * width + nx with the shifted coordinates clamped to the frame
ShiftedChannel(ch, dx, dy, width, height) ==
    Min(Max((ch \div width) + dy, 0), height - 1) * width
        + Min(Max((ch % width) + dx, 0), width - 1)

RECURSIVE StepShiftXy(_, _, _, _, _)
\* step_shift_xy: events on a negative channel are skipped
StepShiftXy(s, dx, dy, width, height) ==
    IF s = <<>> THEN <<>>
    ELSE IF Head(s).c < 0 THEN StepShiftXy(Tail(s), dx, dy, width, height)
    ELSE <<Ev(Head(s).t, ShiftedChannel(Head(s).c, dx, dy, width, height),
              Head(s).v, Head(s).m)>>
            \o StepShiftXy(Tail(s), dx, dy, width, height)

-----------------------------------------------------------------------------
(* eir/graph.py: EIRGraph *)

\* g.nodes in insertion order: records [id, op]; g.edges: records
\* [src, dst, dport]
NodeIds(gr) == {gr.nodes[i].id : i \in 1..Len(gr.nodes)}

OpOf(gr, nid) == gr.nodes[CHOOSE i \in 1..Len(gr.nodes) : gr.nodes[i].id = nid].op

\* indeg after "for e in self.edges: indeg[e.dst[0]] += 1"
Indeg(gr) ==
    [nid \in NodeIds(gr) |->
        Cardinality({i \in 1..Len(gr.edges) : gr.edges[i].dst = nid})]

\* adj[n] as the list of edges leaving n, in edge order
Adj(gr, n) == SelectSeq(gr.edges, LAMBDA e : e.src = n)

RECURSIVE TopoRelax(_, _, _)
\* for neighbor in adj[n]: indeg[neighbor] -= 1; append at zero
TopoRelax(nbrs, indeg, q) ==
    IF nbrs = <<>> THEN [indeg |-> indeg, q |-> q]
    ELSE LET nb == Head(nbrs).dst
             d == indeg[nb] - 1
         IN  TopoRelax(Tail(nbrs), [indeg EXCEPT ![nb] = d],
                       IF d = 0 THEN Append(q, nb) ELSE q)

RECURSIVE TopoLoop(_, _, _, _)
\* while q: n = q.pop(); out.append(n); ...
TopoLoop(gr, q, indeg, out) ==
    IF q = <<>> THEN out
    ELSE LET n == q[Len(q)]
             r == TopoRelax(Adj(gr, n), indeg, SubSeq(q, 1, Len(q) - 1))
         IN  TopoLoop(gr, r.q, r.indeg, Append(out, n))

\* the node ids in insertion order
IdList(gr) == [i \in 1..Len(gr.nodes) |-> gr.nodes[i].id]

\* EIRGraph.topo: the order, or err for ValueError("cycle detected")
Topo(gr) ==
    LET indeg == Indeg(gr)
        q == SelectSeq(IdList(gr), LAMBDA nid : indeg[nid] = 0)
        out == TopoLoop(gr, q, indeg, <<>>)
    IN  [order |-> out, err |-> Len(out) # Len(gr.nodes)]

-----------------------------------------------------------------------------
(* runtime/scheduler.py and runtime/exec.py: event-mode execution *)

LifNodes(gr) == {nid \in NodeIds(gr) : OpOf(gr, nid).kind = "lif"}

\* the LIFState objects of an earlier call are kept when there was one
BuildExecNodesStale(gr) ==
    IF run_no = 1
    THEN [nid \in LifNodes(gr) |-> LIFState(0, ONE, 0, 1, 0).st]
    ELSE exec_state

\* build_exec_nodes: ExecNode.state of each lif node is a new LIFState;
\* the other kinds carry no state
BuildExecNodes(gr) ==
    [nid \in LifNodes(gr) |->
        LET p == OpOf(gr, nid).p
        IN  LIFState(p.tau_m_ns, p.v_th, p.v_reset, p.r_m, p.ref_ns).st]

\* {"in": iter([]), "pre": iter([]), "a": iter([]), "b": iter([])}
EmptyPorts == [port \in {"in", "pre", "a", "b"} |-> <<>>]

\* upstream after the loop over inputs.items()
BindInputs(gr, ins) ==
    [nid \in NodeIds(gr) \cup DOMAIN ins |->
        IF nid \notin DOMAIN ins THEN EmptyPorts
        ELSE IF nid \in NodeIds(gr) THEN [EmptyPorts EXCEPT !["in"] = ins[nid]]
        ELSE [port \in {"in"} |-> ins[nid]]]

\* dict.get(port, iter([]))
PortGet(ports, port) == IF port \in DOMAIN ports THEN ports[port] ELSE <<>>

\* next((upstream[nid][p] for p in ("in", "pre") if p in upstream[nid]), iter([]))
FirstInput(ports) ==
    IF "in" \in DOMAIN ports THEN ports["in"]
    ELSE IF "pre" \in DOMAIN ports THEN ports["pre"]
    ELSE <<>>

\* list(node_iter(nid)): the output, the lif states after it, or err when
\* the operator raises
NodeIter(gr, nid, up, st) ==
    LET op == OpOf(gr, nid) IN
    IF op.kind = "fuse"
    THEN LET r == Fuse(PortGet(up[nid], "a"), PortGet(up[nid], "b"), op.p)
         IN  [out |-> r.out, err |-> r.err, st |-> st]
    ELSE LET it == FirstInput(up[nid]) IN
         IF op.kind = "lif"
         THEN LET r == LifRun(it, st[nid], op.p)
              IN  [out |-> r.out, err |-> FALSE, st |-> [st EXCEPT ![nid] = r.st]]
         ELSE IF op.kind = "exp_syn"
         THEN [out |-> StepExpSyn(it, op.p.tau_s_ns, op.p.weight), err |-> FALSE, st |-> st]
         ELSE [out |-> StepDelay(it, op.p.delay_ns), err |-> FALSE, st |-> st]

RECURSIVE BindSinks(_, _, _)
\* for (dst_id, dport) in sinks[nid]: upstream[dst_id][dport] = iter(out)
BindSinks(up, sinks, out) ==
    IF sinks = <<>> THEN up
    ELSE LET e == Head(sinks)
         IN  BindSinks([up EXCEPT ![e.dst] = (e.dport :> out) @@ up[e.dst]],
                       Tail(sinks), out)

\* what a call hands back to its caller
Returned(outs) == [status |-> "returned", err |-> "", outputs |-> outs]

Raised(err) == [status |-> "raised", err |-> err, outputs |-> <<>>]

\* topo, exec_nodes = g.topo(), build_exec_nodes(g), then the set-up of
\* upstream and outputs
SchedCall ==
    /\ sched_pc = "call"
    /\ LET tp == Topo(g) IN
          IF tp.err
          THEN /\ sched_pc' = "raised"
               /\ sched_err' = "cycle detected"
               /\ run_results' = Append(run_results, Raised("cycle detected"))
               /\ UNCHANGED <<topo, exec_state, upstream, outputs, calls>>
          ELSE /\ sched_pc' = "loop"
               /\ topo' = tp.order
               /\ exec_state' = BuildExecNodes(g)
               /\ upstream' = BindInputs(g, inputs)
               /\ outputs' = [nid \in NodeIds(g) |-> <<>>]
               /\ calls' = [nid \in NodeIds(g) |-> 0]
               /\ UNCHANGED <<sched_err, run_results>>
    /\ topo_pos' = 1
    /\ UNCHANGED <<g, inputs, run_no, notSched>>

\* one iteration of "for nid in topo"
SchedVisit ==
    /\ sched_pc = "loop"
    /\ topo_pos <= Len(topo)
    /\ LET nid == topo[topo_pos]
           r == NodeIter(g, nid, upstream, exec_state)
       IN  /\ calls' = [calls EXCEPT ![nid] = @ + 1]
           /\ exec_state' = r.st
           /\ IF r.err
              THEN /\ sched_pc' = "raised"
                   /\ sched_err' = "TypeError"
                   /\ run_results' = Append(run_results, Raised("TypeError"))
                   /\ UNCHANGED <<upstream, outputs, topo_pos>>
              ELSE /\ outputs' = [outputs EXCEPT ![nid] = @ \o r.out]
                   /\ upstream' = BindSinks(upstream, Adj(g, nid), r.out)
                   /\ topo_pos' = topo_pos + 1
                   /\ UNCHANGED <<sched_pc, sched_err, run_results>>
    /\ UNCHANGED <<g, inputs, run_no, topo, notSched>>

\* return outputs
SchedReturn ==
    /\ sched_pc = "loop"
    /\ topo_pos > Len(topo)
    /\ sched_pc' = "returned"
    /\ run_results' = Append(run_results, Returned(outputs))
    /\ UNCHANGED <<g, inputs, run_no, sched_err, topo, exec_state, upstream, outputs,
                   topo_pos, calls, notSched>>

\* the caller runs the same graph again with equal inputs; the locals of
\* the finished call are gone (its exec_nodes are garbage until
\* build_exec_nodes makes new ones)
SchedRerun ==
    /\ sched_pc \in {"returned", "raised"}
    /\ run_no = 1
    /\ run_no' = 2
    /\ sched_pc' = "call"
    /\ sched_err' = ""
    /\ topo' = <<>>
    /\ upstream' = <<>>
    /\ outputs' = <<>>
    /\ topo_pos' = 1
    /\ calls' = <<>>
    /\ UNCHANGED <<g, inputs, exec_state, run_results, notSched>>

NextSched == SchedCall \/ SchedVisit \/ SchedReturn \/ SchedRerun

-----------------------------------------------------------------------------
(* Specification of run_event_mode *)

\* most edges in a graph
MaxEdges == 3

NodeNames == <<"n0", "n1", "n2">>

\* music_generator: in (delay 0 ms), delay (100 ms), neuron (tau_m 20 ms,
\* v_th 0.8, refractory 2 ms)
MusicGeneratorOps ==
    <<DelayLine(0), DelayLine(100 * MS), LIFNeuron(20 * MS, (8 * ONE) \div 10, 2 * MS)>>

\* change_point: id (delay 0 ms), delay (window), cpd (fuse, window 200 ms,
\* min_count 2)
ChangePointOps == <<DelayLine(0), DelayLine(200 * MS), EventFuse(200 * MS, 2)>>

\* the dataclass defaults of ExpSynapse, LIFNeuron and EventFuse
DefaultOps == <<ExpSynapse(5 * MS, ONE), LIFNeuron(10 * MS, ONE, 2 * MS), EventFuse(50 * MS, 2)>>

\* a source (delay 0 ms) feeding an ExpSynapse of the dataclass defaults,
\* and a delay of 1 ms
SynapseChainOps == <<DelayLine(0), ExpSynapse(5 * MS, ONE), DelayLine(MS)>>

\* the input port an edge from the i-th node targets: the port the
\* destination's operator declares
DeclaredPort(op, i) ==
    IF op.kind = "fuse" THEN (IF i = 1 THEN "a" ELSE "b")
    ELSE IF op.kind = "exp_syn" THEN "pre"
    ELSE "in"

EdgeRank(pr) == 3 * pr[1] + pr[2]

\* lists of distinct (source, destination) pairs, in ascending or in
\* descending order of connect() calls
EdgeLists ==
    {s \in SeqsUpTo((1..3) \X (1..3), MaxEdges) :
        \/ \A i \in 1..(Len(s) - 1) : EdgeRank(s[i]) < EdgeRank(s[i + 1])
        \/ \A i \in 1..(Len(s) - 1) : EdgeRank(s[i]) > EdgeRank(s[i + 1])}

MakeGraph(ops, pairs) ==
    [nodes |-> [i \in 1..3 |-> [id |-> NodeNames[i], op |-> ops[i]]],
     edges |-> [k \in 1..Len(pairs) |->
                  [src |-> NodeNames[pairs[k][1]],
                   dst |-> NodeNames[pairs[k][2]],
                   dport |-> DeclaredPort(ops[pairs[k][2]], pairs[k][1])]]]

\* the graph music_generator() builds: in -> delay -> neuron -> in
MusicGenerator == MakeGraph(MusicGeneratorOps, <<<<1, 2>>, <<2, 3>>, <<3, 1>>>>)

\* the event streams handed to node n0
Stimuli ==
    {<<>>,
     <<Ev(MS, 0, ONE, Meta(1))>>,
     <<Ev(MS, 0, ONE, Meta(1)), Ev(2 * MS, 0, ONE, Meta(1))>>,
     <<Ev(MS, 0, ONE, Meta(1)), Ev(MS, 0, ONE, Meta(2))>>,
     <<Ev(MS, 0, ONE, Meta(1)), Ev(3 * MS, 0, ONE \div 2, Meta(2)), Ev(4 * MS, 0, ONE, Meta(1))>>}

InitSched ==
    /\ g \in {MakeGraph(ops, pairs) :
                 ops \in {MusicGeneratorOps, ChangePointOps, DefaultOps, SynapseChainOps},
                 pairs \in EdgeLists}
    /\ inputs \in {[nid \in {"n0"} |-> s] : s \in Stimuli}
    /\ run_no = 1
    /\ sched_pc = "call"
    /\ sched_err = ""
    /\ topo = <<>>
    /\ exec_state = <<>>
    /\ upstream = <<>>
    /\ outputs = <<>>
    /\ topo_pos = 1
    /\ calls = <<>>
    /\ run_results = <<>>
    /\ LifIdle
    /\ BucketIdle
    /\ FuseIdle
    /\ FacadeIdle
    /\ OpsIdle
    /\ PlanIdle
    /\ CmpIdle
    /\ TraceIdle
    /\ EirIdle
    /\ SerialIdle
    /\ KernelIdle
    /\ CliIdle
    /\ FlowIdle

SpecSched == InitSched /\ [][NextSched]_vars

-----------------------------------------------------------------------------
(* Claims about run_event_mode *)

SchedFinished == sched_pc \in {"returned", "raised"}

SchedBothDone == run_no = 2 /\ SchedFinished

\* C1: two calls of run_event_mode on the same graph with equal inputs hand
\* back identical per-node output sequences (or fail alike), and the second
\* call starts from operator state that the first call has not touched.
C1_DeterministicReplay ==
    /\ SchedBothDone => run_results[1] = run_results[2]
    /\ (run_no = 2 /\ sched_pc = "loop" /\ topo_pos = 1)
          => \A nid \in DOMAIN exec_state :
                exec_state[nid] = [v |-> 0, t_last_spike_ns |-> T_LAST_INIT, t_prev_ns |-> 0]

\* both calls returned, and a lif node spiked in each: its state at the end
\* of a call is not the state it was built with
C1_Witness ==
    /\ SchedBothDone
    /\ sched_pc = "returned"
    /\ run_results[1].status = "returned"
    /\ \E nid \in LifNodes(g) :
          /\ outputs[nid] # <<>>
          /\ exec_state[nid].t_last_spike_ns # T_LAST_INIT
          /\ run_results[1].outputs[nid] = outputs[nid]

RECURSIVE Closure(_)
\* the transitive closure of a relation
Closure(R) ==
    LET R2 == R \cup {<<q[1][1], q[2][2]>> : q \in {q \in R \X R : q[1][2] = q[2][1]}}
    IN  IF R2 = R THEN R ELSE Closure(R2)

\* some cycle of gr lies entirely within the nodes S
HasCycleAmong(gr, S) ==
    LET R == {<<gr.edges[i].src, gr.edges[i].dst>> : i \in 1..Len(gr.edges)}
             \cap (S \X S)
    IN  \E n \in S : <<n, n>> \in Closure(R)

Acyclic(gr) == ~HasCycleAmong(gr, NodeIds(gr))

PositiveDelayNodes(gr) ==
    {nid \in NodeIds(gr) : OpOf(gr, nid).kind = "delay" /\ OpOf(gr, nid).p.delay_ns > 0}

\* topo lists every node once, each after all the nodes with an edge into it
TopologicalOrder ==
    /\ Len(topo) = Len(g.nodes)
    /\ \A nid \in NodeIds(g) : InSeq(nid, topo)
    /\ \A k \in 1..Len(topo), i \in 1..Len(g.edges) :
          g.edges[i].dst = topo[k] => \E j \in 1..(k - 1) : topo[j] = g.edges[i].src

\* the operators of the nodes before topo_pos ran once, in topo order, and
\* their outputs are stored; no other operator ran
VisitedInOrder ==
    \A k \in 1..Len(topo) :
        IF k < topo_pos THEN calls[topo[k]] = 1 /\ DOMAIN outputs = NodeIds(g)
        ELSE calls[topo[k]] = 0

\* C2: in one run_event_mode call on an acyclic graph every node's operator
\* is invoked exactly once, and only after every node that has an edge into
\* it has been evaluated and its complete output stored.
C2_EachNodeOnceInTopoOrder ==
    (Acyclic(g) /\ sched_pc # "call") =>
        /\ TopologicalOrder
        /\ sched_pc = "loop" => VisitedInOrder
        /\ SchedFinished => \A nid \in NodeIds(g) : calls[nid] = 1

\* what the code does satisfy: an acyclic graph is never rejected, the nodes
\* are visited once each in a topological order, and a call that returns
\* has run every operator; a call in which an operator raises stops there
SchedOnceInTopoOrderWhenReturned ==
    (Acyclic(g) /\ sched_pc # "call") =>
        /\ sched_err # "cycle detected"
        /\ TopologicalOrder
        /\ sched_pc = "loop" => VisitedInOrder
        /\ sched_pc = "returned" => \A nid \in NodeIds(g) : calls[nid] = 1
        /\ sched_pc = "raised" =>
              /\ sched_err = "TypeError"
              /\ OpOf(g, topo[topo_pos]).kind = "fuse"
              /\ \A k \in 1..Len(topo) : calls[topo[k]] = (IF k <= topo_pos THEN 1 ELSE 0)

\* C3: a graph is rejected exactly when it has a cycle that does not pass
\* through a delay node with positive delay; the music_generator loop
\* in -> delay -> neuron -> in is accepted, and an accepted graph's call
\* returns outputs for every node.
C3_CyclesThroughDelayAccepted ==
    sched_pc # "call" =>
        /\ sched_err = "cycle detected"
              <=> HasCycleAmong(g, NodeIds(g) \ PositiveDelayNodes(g))
        /\ g = MusicGenerator => sched_err # "cycle detected"
        /\ sched_pc = "returned" => DOMAIN outputs = NodeIds(g)

\* what the code does: every cycle is rejected, whatever nodes it passes
\* through, and the music_generator graph is among the rejected
EveryCycleRejected ==
    sched_pc # "call" =>
        /\ sched_err = "cycle detected" <=> ~Acyclic(g)
        /\ g = MusicGenerator => sched_err = "cycle detected"

-----------------------------------------------------------------------------
(* runtime/exec.py: fixed-step execution *)

\* run_fixed_dt: run_event_mode(g, {k: bucket(v) for k, v in inputs.items()})
\* starts with every input stream replaced by its bucketed stream
RunFixedDt ==
    /\ sched_pc = "fixed_dt"
    /\ inputs' = [k \in DOMAIN inputs |-> Bucket(inputs[k], bucket_dt)]
    /\ sched_pc' = "call"
    /\ UNCHANGED <<g, run_no, sched_err, topo, exec_state, upstream, outputs,
                   topo_pos, calls, run_results, notSched>>

NextFixedDt == RunFixedDt \/ SchedCall \/ SchedVisit \/ SchedReturn

\* the steps run_fixed_dt is called with: 1 ms as in
\* test_fixed_step_bucketing_alignment, and 3 ms
FixedDts == {MS, 3 * MS}

InitFixedDt ==
    /\ g \in {MakeGraph(ops, pairs) :
                 ops \in {MusicGeneratorOps, ChangePointOps, DefaultOps},
                 pairs \in EdgeLists}
    /\ inputs \in {[nid \in {"n0"} |-> s] : s \in Stimuli}
    /\ bucket_dt \in FixedDts
    /\ bucket_src = <<>>
    /\ bucket_it = <<>>
    /\ bucket_out = <<>>
    /\ run_no = 1
    /\ sched_pc = "fixed_dt"
    /\ sched_err = ""
    /\ topo = <<>>
    /\ exec_state = <<>>
    /\ upstream = <<>>
    /\ outputs = <<>>
    /\ topo_pos = 1
    /\ calls = <<>>
    /\ run_results = <<>>
    /\ LifIdle
    /\ FuseIdle
    /\ FacadeIdle
    /\ OpsIdle
    /\ PlanIdle
    /\ CmpIdle
    /\ TraceIdle
    /\ EirIdle
    /\ SerialIdle
    /\ KernelIdle
    /\ CliIdle
    /\ FlowIdle

SpecFixedDt == InitFixedDt /\ [][NextFixedDt]_vars

-----------------------------------------------------------------------------
(* Claims about run_fixed_dt *)

\* every timestamp of s is an exact multiple of dt_ns
Aligned(s) == \A i \in 1..Len(s) : s[i].t % bucket_dt = 0

\* the bucketing has been applied
Bucketed == sched_pc # "fixed_dt"

\* every delay node of the graph shifts by a multiple of dt_ns
DelaysAligned ==
    \A nid \in NodeIds(g) :
        OpOf(g, nid).kind = "delay" => OpOf(g, nid).p.delay_ns % bucket_dt = 0

-----------------------------------------------------------------------------
(* Specification of the operators, each applied to whole input streams *)

\* largest input timestamp, in half milliseconds
MaxOpsT == 4
\* longest input stream
MaxOpsLen == 3

OpsTimes == {k * HALF_MS : k \in 0..MaxOpsT}

\* the bucketing of run_fixed_dt as an operator
FixedStepBucket(dt_ns) == [kind |-> "bucket", p |-> [dt_ns |-> dt_ns]]

\* the operators applied: the dataclass defaults where they are small, a
\* one-kilohertz STFT of one or two samples, and a 2 x 2 pixel frame
OpsOperators ==
    {LIFNeuron(10 * MS, ONE, ref) : ref \in {0, 2 * MS}}
    \cup {ExpSynapse(5 * MS, w) : w \in {ONE, 2 * ONE}}
    \cup {DelayLine(d) : d \in {0, MS}}
    \cup {EventFuse(win, minc) : win \in {0, MS}, minc \in {1, 2}}
    \cup {STFT(nh[1], nh[2], 1000, win) :
             nh \in {<<1, MS>>, <<2, MS>>, <<2, 2 * MS>>}, win \in {"hann", "rect"}}
    \cup {MelBands(f, 2, FALSE) : f \in {<<<<ONE, 0>>, <<0, ONE>>>>, <<<<ONE \div 2, ONE \div 2>>>>}}
    \cup {XYToChannel(2, 2)}
    \cup {ShiftXY(d[1], d[2], 2, 2) : d \in {<<1, 0>>, <<-1, 1>>}}
    \cup {FixedStepBucket(dt) : dt \in {1, MS}}

\* the events an operator of this kind is fed
OpsEvents(kind) ==
    IF kind = "fuse"
    THEN {Ev(k * MS, 0, ONE, Meta(tag)) : k \in 0..(MaxOpsT \div 2), tag \in {1, 2}}
    ELSE IF kind = "xy_to_ch"
    THEN {Ev(tm, 0, ONE, [x |-> xy[1], y |-> xy[2]]) :
             tm \in OpsTimes, xy \in {<<0, 0>>, <<1, 1>>, <<2, 0>>, <<-1, -1>>}}
    ELSE IF kind = "shift_xy"
    THEN {Ev(tm, c, ONE, NoMeta) : tm \in OpsTimes, c \in {-1, 0, 3}}
    ELSE IF kind = "mel"
    THEN {Ev(tm, c, ONE, [unit |-> "mag", n_fft |-> 2]) : tm \in OpsTimes, c \in {0, 1, 2}}
    ELSE {Ev(tm, c, ONE, NoMeta) : tm \in OpsTimes, c \in {0, 1}}

\* the non-decreasing streams an operator of this kind is fed; the two
\* streams of a fuse are one event shorter
OpsStreams(kind) ==
    {s \in SeqsUpTo(OpsEvents(kind), IF kind = "fuse" THEN MaxOpsLen - 1 ELSE MaxOpsLen) :
        NonDecreasing(Times(s))}

InitOps ==
    /\ ops_op \in OpsOperators
    /\ ops_a \in OpsStreams(ops_op.kind)
    /\ ops_b \in IF ops_op.kind = "fuse" THEN OpsStreams("fuse") ELSE {<<>>}
    /\ ops_out = <<>>
    /\ ops_pc = "ready"
    /\ LifIdle
    /\ BucketIdle
    /\ FuseIdle
    /\ SchedIdle
    /\ FacadeIdle
    /\ PlanIdle
    /\ CmpIdle
    /\ TraceIdle
    /\ EirIdle
    /\ SerialIdle
    /\ KernelIdle
    /\ CliIdle
    /\ FlowIdle

\* list(step_lif(it, LIFState(...)))
OpsLif ==
    /\ ops_pc = "ready"
    /\ ops_op.kind = "lif"
    /\ ops_out' = LifRun(ops_a,
                         LIFState(ops_op.p.tau_m_ns, ops_op.p.v_th, ops_op.p.v_reset,
                                  ops_op.p.r_m, ops_op.p.ref_ns).st,
                         ops_op.p).out
    /\ ops_pc' = "done"
    /\ UNCHANGED <<ops_op, ops_a, ops_b, notOps>>

\* list(step_exp_syn(it, tau, w))
OpsExpSyn ==
    /\ ops_pc = "ready"
    /\ ops_op.kind = "exp_syn"
    /\ ops_out' = StepExpSyn(ops_a, ops_op.p.tau_s_ns, ops_op.p.weight)
    /\ ops_pc' = "done"
    /\ UNCHANGED <<ops_op, ops_a, ops_b, notOps>>

\* list(step_delay(it, d))
OpsDelay ==
    /\ ops_pc = "ready"
    /\ ops_op.kind = "delay"
    /\ ops_out' = StepDelay(ops_a, ops_op.p.delay_ns)
    /\ ops_pc' = "done"
    /\ UNCHANGED <<ops_op, ops_a, ops_b, notOps>>

\* list(_fuse(it_a, it_b)), which may raise TypeError
OpsFuse ==
    /\ ops_pc = "ready"
    /\ ops_op.kind = "fuse"
    /\ LET r == Fuse(ops_a, ops_b, ops_op.p) IN
          /\ ops_out' = r.out
          /\ ops_pc' = IF r.err THEN "raised" ELSE "done"
    /\ UNCHANGED <<ops_op, ops_a, ops_b, notOps>>

\* list(step_stft(it, n_fft, hop_ns, sr, win))
OpsStft ==
    /\ ops_pc = "ready"
    /\ ops_op.kind = "stft"
    /\ ops_out' = StepStft(ops_a, ops_op.p.n_fft, ops_op.p.hop_ns,
                           ops_op.p.sample_rate_hz, ops_op.p.window)
    /\ ops_pc' = "done"
    /\ UNCHANGED <<ops_op, ops_a, ops_b, notOps>>

\* list(step_mel(it, filters, n_bins, log))
OpsMel ==
    /\ ops_pc = "ready"
    /\ ops_op.kind = "mel"
    /\ ops_out' = StepMel(ops_a, ops_op.p.filters, ops_op.p.n_bins)
    /\ ops_pc' = "done"
    /\ UNCHANGED <<ops_op, ops_a, ops_b, notOps>>

\* list(step_xy_to_ch(it, w, h))
OpsXyToCh ==
    /\ ops_pc = "ready"
    /\ ops_op.kind = "xy_to_ch"
    /\ ops_out' = StepXyToCh(ops_a, ops_op.p.width, ops_op.p.height)
    /\ ops_pc' = "done"
    /\ UNCHANGED <<ops_op, ops_a, ops_b, notOps>>

\* list(step_shift_xy(it, dx, dy, w, h))
OpsShiftXy ==
    /\ ops_pc = "ready"
    /\ ops_op.kind = "shift_xy"
    /\ ops_out' = StepShiftXy(ops_a, ops_op.p.dx, ops_op.p.dy, ops_op.p.width,
                              ops_op.p.height)
    /\ ops_pc' = "done"
    /\ UNCHANGED <<ops_op, ops_a, ops_b, notOps>>

\* list(bucket(it))
OpsBucket ==
    /\ ops_pc = "ready"
    /\ ops_op.kind = "bucket"
    /\ ops_out' = Bucket(ops_a, ops_op.p.dt_ns)
    /\ ops_pc' = "done"
    /\ UNCHANGED <<ops_op, ops_a, ops_b, notOps>>

NextOps ==
    \/ OpsLif
    \/ OpsExpSyn
    \/ OpsDelay
    \/ OpsFuse
    \/ OpsStft
    \/ OpsMel
    \/ OpsXyToCh
    \/ OpsShiftXy
    \/ OpsBucket

SpecOps == InitOps /\ [][NextOps]_vars

-----------------------------------------------------------------------------
(* Claims about the operators *)

\* C14: for every operator (lif, exp_syn, delay, fuse, stft, mel, xy_to_ch,
\* shift_xy and fixed-step bucketing), if every input stream is
\* non-decreasing in t then the output stream is non-decreasing in t.
C14_OutputsNonDecreasing ==
    (NonDecreasing(Times(ops_a)) /\ NonDecreasing(Times(ops_b)))
        => NonDecreasing(Times(ops_out))

\* a fuse that returned two events at different times
C14_Witness ==
    /\ ops_pc = "done"
    /\ ops_op.kind = "fuse"
    /\ Len(ops_out) >= 2
    /\ ops_out[1].t < ops_out[Len(ops_out)].t

\* every kind of operator has produced an output of two or more events
\* whose times differ
OpsKindWitnessed(kind) ==
    /\ ops_pc = "done"
    /\ ops_op.kind = kind
    /\ Len(ops_out) >= 2
    /\ ops_out[1].t < ops_out[Len(ops_out)].t

-----------------------------------------------------------------------------
(* Python floats: the IEEE 754 doubles the planner computes with *)

(* A natural number too large for the integers of the model is a sequence  *)
(* of limbs, least significant first, without leading zero limbs; a double *)
(* is m * 2^e with a mantissa m of 53 bits held that way.                  *)

\* the bits of a limb
LIMB_BITS == 15
\* the base of a limb
LIMB == 2^LIMB_BITS
\* the bits of a double's mantissa
MANT_BITS == 53

RECURSIVE BigTrim(_)
\* drop the leading zero limbs
BigTrim(a) ==
    IF a = <<>> THEN <<>>
    ELSE IF a[Len(a)] = 0 THEN BigTrim(SubSeq(a, 1, Len(a) - 1))
    ELSE a

RECURSIVE BigOfInt(_)
BigOfInt(n) == IF n = 0 THEN <<>> ELSE <<n % LIMB>> \o BigOfInt(n \div LIMB)

RECURSIVE BigToInt(_)
\* the value of a number known to fit the integers of the model
BigToInt(a) == IF a = <<>> THEN 0 ELSE a[1] + LIMB * BigToInt(Tail(a))

RECURSIVE BigCmpFrom(_, _, _)
\* compare two numbers of equal length from limb i downwards
BigCmpFrom(a, b, i) ==
    IF i = 0 THEN 0
    ELSE IF a[i] < b[i] THEN -1
    ELSE IF a[i] > b[i] THEN 1
    ELSE BigCmpFrom(a, b, i - 1)

\* -1, 0 or 1 as a < b, a = b or a > b
BigCmp(a, b) ==
    IF Len(a) < Len(b) THEN -1
    ELSE IF Len(a) > Len(b) THEN 1
    ELSE BigCmpFrom(a, b, Len(a))

LimbAt(a, i) == IF i <= Len(a) THEN a[i] ELSE 0

RECURSIVE BigAddFrom(_, _, _, _)
\* the limbs of a + b + carry from limb i upwards
BigAddFrom(a, b, i, carry) ==
    IF i > Len(a) /\ i > Len(b)
    THEN (IF carry = 0 THEN <<>> ELSE <<carry>>)
    ELSE <<(LimbAt(a, i) + LimbAt(b, i) + carry) % LIMB>>
            \o BigAddFrom(a, b, i + 1, (LimbAt(a, i) + LimbAt(b, i) + carry) \div LIMB)

BigAdd(a, b) == BigAddFrom(a, b, 1, 0)

RECURSIVE BigSubFrom(_, _, _, _)
\* the limbs of a - b - borrow from limb i upwards, for a >= b
BigSubFrom(a, b, i, borrow) ==
    IF i > Len(a) THEN <<>>
    ELSE <<(a[i] - LimbAt(b, i) - borrow + LIMB) % LIMB>>
            \o BigSubFrom(a, b, i + 1, IF a[i] - LimbAt(b, i) - borrow < 0 THEN 1 ELSE 0)

\* a - b for a >= b
BigSub(a, b) == BigTrim(BigSubFrom(a, b, 1, 0))

\* |a - b|
BigDist(a, b) == IF BigCmp(a, b) >= 0 THEN BigSub(a, b) ELSE BigSub(b, a)

RECURSIVE BigMulSmallFrom(_, _, _, _)
\* the limbs of a * m + carry from limb i upwards, for m below LIMB
BigMulSmallFrom(a, m, i, carry) ==
    IF i > Len(a) THEN (IF carry = 0 THEN <<>> ELSE <<carry>>)
    ELSE <<(a[i] * m + carry) % LIMB>>
            \o BigMulSmallFrom(a, m, i + 1, (a[i] * m + carry) \div LIMB)

BigMulSmall(a, m) == IF m = 0 THEN <<>> ELSE BigMulSmallFrom(a, m, 1, 0)

\* a * LIMB^k
BigShiftLimbs(a, k) == IF a = <<>> THEN <<>> ELSE [i \in 1..k |-> 0] \o a

RECURSIVE BigMul(_, _)
BigMul(a, b) ==
    IF b = <<>> THEN <<>>
    ELSE BigAdd(BigMulSmall(a, b[1]), BigShiftLimbs(BigMul(a, Tail(b)), 1))

\* a * 2^k
BigShl(a, k) == BigShiftLimbs(BigMulSmall(a, 2^(k % LIMB_BITS)), k \div LIMB_BITS)

RECURSIVE BitLen(_)
\* the number of bits of a non-negative integer
BitLen(n) == IF n = 0 THEN 0 ELSE 1 + BitLen(n \div 2)

BigBitLen(a) == IF a = <<>> THEN 0 ELSE (Len(a) - 1) * LIMB_BITS + BitLen(a[Len(a)])

\* bit i of a, bit 0 being the least significant
BigBit(a, i) == (LimbAt(a, (i \div LIMB_BITS) + 1) \div 2^(i % LIMB_BITS)) % 2

\* the number of bits by which d falls short of whole limbs
Slack(d) == LIMB_BITS - BitLen(d[Len(d)])

\* the guess of a quotient limb from the two leading limbs of the remainder
\* r and the leading limb of the divisor d; for a d without slack it is
\* the limb or up to two above it
LimbGuess(r, d) ==
    Min((LimbAt(r, Len(d) + 1) * LIMB + LimbAt(r, Len(d))) \div d[Len(d)], LIMB - 1)

RECURSIVE BigDivModFrom(_, _, _, _, _)
RECURSIVE DivLimbFrom(_, _, _, _, _, _)

\* the limb i of the quotient: the largest limb <= guess whose product with
\* d is <= r; it goes in front of q, and the division continues
DivLimbFrom(n, d, i, q, r, guess) ==
    IF BigCmp(BigMulSmall(d, guess), r) <= 0
    THEN BigDivModFrom(n, d, i - 1, <<guess>> \o q, BigSub(r, BigMulSmall(d, guess)))
    ELSE DivLimbFrom(n, d, i, q, r, guess - 1)

\* one step of the long division: the remainder r has taken in limb i of n
DivLimb(n, d, i, q, r) == DivLimbFrom(n, d, i, q, r, LimbGuess(r, d))

\* long division of the limbs i, i - 1, ..., 1 of n by d, continued from the
\* quotient q and the remainder r
BigDivModFrom(n, d, i, q, r) ==
    IF i = 0 THEN [q |-> BigTrim(q), r |-> r]
    ELSE DivLimb(n, d, i, q, BigTrim(<<n[i]>> \o r))

\* the quotient q of n by d > 0, and the remainder r of
\* n * 2^Slack(d) by d * 2^Slack(d)
BigDivMod(n, d) ==
    BigDivModFrom(BigShl(n, Slack(d)), BigShl(d, Slack(d)),
                  Len(BigShl(n, Slack(d))), <<>>, <<>>)

\* a quotient rounded to the nearest integer, halves to the even neighbour:
\* the remainder r is of the division by d
RoundQuotient(qr, d) ==
    IF BigCmp(BigAdd(qr.r, qr.r), d) < 0 THEN qr.q
    ELSE IF BigCmp(BigAdd(qr.r, qr.r), d) > 0 THEN BigAddFrom(qr.q, <<>>, 1, 1)
    ELSE IF BigBit(qr.q, 0) = 0 THEN qr.q ELSE BigAddFrom(qr.q, <<>>, 1, 1)

\* n / d rounded to the nearest integer, halves to the even neighbour
BigRoundDiv(n, d) == RoundQuotient(BigDivMod(n, d), BigShl(d, Slack(d)))

\* the double m * 2^e; a mantissa that rounded up to 2^53 is renormalised
Double(m, e) ==
    IF BigBitLen(m) > MANT_BITS THEN [m |-> BigShl(<<1>>, MANT_BITS - 1), e |-> e + 1]
    ELSE [m |-> m, e |-> e]

\* n / (d * 2^e) rounded to an integer mantissa
MantissaAt(n, d, e) ==
    IF e >= 0 THEN BigRoundDiv(n, BigShl(d, e)) ELSE BigRoundDiv(BigShl(n, -e), d)

\* whether n / (d * 2^e) has reached 2^53
MantissaTooLong(n, d, e) ==
    IF e >= 0 THEN BigCmp(n, BigShl(d, e + MANT_BITS)) >= 0
    ELSE BigCmp(BigShl(n, -e), BigShl(d, MANT_BITS)) >= 0

\* the double nearest to n / d, with the exponent e or e + 1 that makes
\* the mantissa 53 bits long
NearestDoubleFrom(n, d, e) ==
    IF MantissaTooLong(n, d, e) THEN Double(MantissaAt(n, d, e + 1), e + 1)
    ELSE Double(MantissaAt(n, d, e), e)

\* the double nearest to n / d for n, d > 0: float division, and float
\* multiplication when d is a power of two
NearestDouble(n, d) == NearestDoubleFrom(n, d, BigBitLen(n) - BigBitLen(d) - MANT_BITS)

\* x * 2^k for any integer k, as the fraction [n, d]
Scaled(x, k) ==
    IF k >= 0 THEN [n |-> BigShl(x, k), d |-> <<1>>] ELSE [n |-> x, d |-> BigShl(<<1>>, -k)]

\* round(x) of a double x: the nearest integer, halves to the even one
RoundDouble(x) == BigToInt(BigRoundDiv(Scaled(x.m, x.e).n, Scaled(x.m, x.e).d))

\* float(a) / x for an integer a > 0 and a double x
IntDivDouble(a, x) ==
    NearestDouble(BigMul(BigOfInt(a), Scaled(<<1>>, x.e).d),
                  BigMul(x.m, Scaled(<<1>>, x.e).n))

\* float(q) * x for an integer q > 0 and a double x
IntMulDouble(q, x) ==
    NearestDouble(BigMul(BigMul(BigOfInt(q), x.m), Scaled(<<1>>, x.e).n),
                  Scaled(<<1>>, x.e).d)

\* abs(x - a) > b for a double x and integers a, b >= 0; the difference of
\* a double and an integer of its size is a double, so it is exact
DistExceeds(x, a, b) ==
    BigCmp(BigDist(Scaled(x.m, x.e).n, BigMul(BigOfInt(a), Scaled(x.m, x.e).d)),
           BigMul(BigOfInt(b), Scaled(x.m, x.e).d)) > 0

-----------------------------------------------------------------------------
(* cpu_sim/executor.py: the capability planner *)

\* res_us = time_resolution_ns / 1000.0, a double (0.0 has no mantissa)
ResUs(dcd) ==
    IF dcd.time_resolution_ns = 0 THEN [m |-> <<>>, e |-> 0]
    ELSE NearestDouble(BigOfInt(dcd.time_resolution_ns), BigOfInt(1000))

\* the verdict on dt_us_sel: quant_err = abs(dt_us_sel - dt_us_req) against
\* epsilon_time_us, then dt_us_final = int(round(dt_us_sel))
QuantizedStep(eir, dt_us_sel) ==
    IF DistExceeds(dt_us_sel, eir.fixed_step_dt_us, eir.epsilon_time_us)
    THEN [err |-> "backend.time_quantization_violation", dt_us |-> -1]
    ELSE [err |-> "", dt_us |-> RoundDouble(dt_us_sel)]

\* if q < 1: q = 1, then dt_us_sel = q * res_us (0.0 for a resolution of 0)
SelectStep(eir, q, res_us) ==
    IF res_us.m = <<>> THEN QuantizedStep(eir, res_us)
    ELSE IF q < 1 THEN QuantizedStep(eir, IntMulDouble(1, res_us))
    ELSE QuantizedStep(eir, IntMulDouble(q, res_us))

\* q = round(dt_us_req / res_us) if res_us > 0 else dt_us_req
Quantize(eir, res_us) ==
    IF res_us.m = <<>> THEN SelectStep(eir, eir.fixed_step_dt_us, res_us)
    ELSE SelectStep(eir, RoundDouble(IntDivDouble(eir.fixed_step_dt_us, res_us)), res_us)

\* the fixed_step branch: quantize dt to the device resolution and compare
\* the error with epsilon_time_us, all in double arithmetic
PlanFixedStep(eir, dcd) ==
    IF eir.fixed_step_dt_us < 1
    THEN [err |-> "backend.time_config_invalid", dt_us |-> -1]
    ELSE Quantize(eir, ResUs(dcd))

\* the exact_event branch: worst_case = res_us / 2.0 against epsilon_time_us;
\* halving a double is exact, and so is the comparison with the integer
PlanExactEvent(eir, dcd) ==
    IF DistExceeds(ResUs(dcd), 0, 2 * eir.epsilon_time_us)
    THEN [err |-> "backend.time_quantization_violation", dt_us |-> -1]
    ELSE [err |-> "", dt_us |-> -1]

\* the time step of the negotiation: the error it raises, or "" and the
\* dt_us_final (-1 for None)
NegotiateTime(eir, dcd) ==
    IF eir.mode = "fixed_step" THEN PlanFixedStep(eir, dcd) ELSE PlanExactEvent(eir, dcd)

\* mode not in deterministic_modes or (mode == "exact_event" and fixed_only)
ModeEmulated(eir, dcd) ==
    \/ eir.mode \notin dcd.deterministic_modes
    \/ eir.mode = "exact_event" /\ dcd.fixed_only

\* the warning of the time mode, first in the list
ModeWarnings(eir, dcd) == IF ModeEmulated(eir, dcd) THEN <<"time_mode">> ELSE <<>>

\* the warning of the overflow policy ("" for a policy left out)
OverflowWarnings(eir, dcd) ==
    IF /\ eir.overflow_policy # ""
       /\ dcd.overflow_behavior # ""
       /\ eir.overflow_policy # dcd.overflow_behavior
    THEN <<"overflow_policy">>
    ELSE <<>>

\* the kinds whose op is looked up in supported_ops
OP_KINDS == {"spiking_neuron", "synapse", "kernel"}

\* a node with an op outside supported_ops, of whatever kind
NodeOpUnsupported(n, dcd) == n.op # "" /\ n.op \notin dcd.supported_ops

\* whether the loop over the nodes appends node n ("" for an op left out)
NodeEmulated(n, dcd) ==
    /\ n.kind \in OP_KINDS
    /\ n.op # ""
    /\ n.op \notin dcd.supported_ops

\* emulated_nodes: the unsupported nodes in the order of eir["nodes"]
EmulatedNodes(eir, dcd) == SelectSeq(eir.nodes, LAMBDA n : NodeEmulated(n, dcd))

\* negotiation["ops"]["unsupported_ops"], as a set
UnsupportedOps(emulated_nodes) == {emulated_nodes[i].op : i \in DOMAIN emulated_nodes}

\* a call of the planner that raised ValueError(err)
PlanRaised(err) ==
    [err |-> err, dt_us |-> -1, policy |-> "", emulated |-> FALSE,
     emulated_nodes |-> <<>>, unsupported_ops |-> {}, warnings |-> <<>>]

\* the plan dict: schedule[0].policy and .dt_us, partitions[0].emulated,
\* capabilities.emulated_nodes, negotiation.ops.unsupported_ops, warnings
PlanDict(eir, dcd, dt_us_final, emulated_nodes) ==
    [err |-> "",
     dt_us |-> dt_us_final,
     policy |-> IF eir.mode = "fixed_step" THEN "fixed" ELSE "event",
     emulated |-> Len(emulated_nodes) > 0 \/ ModeEmulated(eir, dcd),
     emulated_nodes |-> emulated_nodes,
     unsupported_ops |-> UnsupportedOps(emulated_nodes),
     warnings |-> ModeWarnings(eir, dcd) \o OverflowWarnings(eir, dcd)]

\* the planner after the profile check, given the verdict of the time step
PlanAfterTime(eir, dcd, time) ==
    IF time.err # "" THEN PlanRaised(time.err)
    ELSE PlanDict(eir, dcd, time.dt_us, EmulatedNodes(eir, dcd))

\* plan_cpu_sim: the ValueError it raises, or "" and the plan (dt_us -1 for
\* None); a profile left out ("") passes the profile check
PlanCpuSim(eir, dcd) ==
    IF eir.profile # "" /\ eir.profile \notin dcd.conformance_profiles
    THEN PlanRaised("backend.unsupported_profile")
    ELSE PlanAfterTime(eir, dcd, NegotiateTime(eir, dcd))

\* plan_gpu_sim (gpu_sim/executor.py): the capability planner of section
\* 4.5 run against the gpu-sim descriptor
PlanGpuSim(eir, dcd) == PlanCpuSim(eir, dcd)

-----------------------------------------------------------------------------
(* registry/registry.py: the backends *)

\* list_backends()
ListBackends == <<"cpu-sim", "gpu-sim">>

\* one line of the facade's history
LogEntry(op, be, ok) == [op |-> op, be |-> be, ok |-> ok]

\* the outcome of a call: whether it succeeded, the exception type when it
\* did not, the history it adds, and the plan it produced or used
Outcome(ok, err, log, plan) == [ok |-> ok, err |-> err, log |-> log, plan |-> plan]

\* load_backend(name): the constructors need their DCD file and executor
LoadBackend(name, world) ==
    IF name \notin {"cpu-sim", "gpu-sim"}
    THEN Outcome(FALSE, "ValueError", <<LogEntry("load", name, FALSE)>>, None)
    ELSE IF name \notin world.loadable
    THEN Outcome(FALSE, "FileNotFoundError", <<LogEntry("load", name, FALSE)>>, None)
    ELSE Outcome(TRUE, "", <<LogEntry("load", name, TRUE)>>, None)

\* the planner's verdict r as the outcome of Backend.plan
PlanOutcome(name, r) ==
    Outcome(r.err = "", IF r.err = "" THEN "" ELSE "ValueError",
            <<LogEntry("validate_eir", name, TRUE), LogEntry("plan", name, r.err = "")>>,
            [backend |-> name, dt_us |-> r.dt_us])

\* a descriptor of a simulator: both time modes, the operators of the
\* reference kernels
SimDcd(profiles, resolution_ns) ==
    [conformance_profiles |-> profiles, time_resolution_ns |-> resolution_ns,
     supported_ops |-> {"lif", "exp_syn"},
     deterministic_modes |-> {"exact_event", "fixed_step"},
     fixed_only |-> FALSE, overflow_behavior |-> "drop_tail"]

\* cpu_sim's descriptor: profiles BASE and REALTIME, 1 us resolution
CpuDcd == SimDcd({"BASE", "REALTIME"}, 1000)

\* gpu_sim's descriptor, as shipped and with a coarser clock
GpuDcds == {SimDcd({"BASE", "LEARNING"}, 1000), SimDcd({"BASE", "REALTIME"}, 1500)}

\* the nodes of _minimal_eir
MinimalNodes == <<[id |-> "n0", kind |-> "spiking_neuron", op |-> "lif"]>>

\* the EIRs handed to the facade
Eirs ==
    {[valid |-> v, profile |-> pr, mode |-> tc[1], fixed_step_dt_us |-> tc[2],
      epsilon_time_us |-> tc[3], nodes |-> MinimalNodes, overflow_policy |-> ""] :
        v \in BOOLEAN, pr \in {"BASE", "LEARNING"},
        tc \in {<<"exact_event", 0, 100>>, <<"fixed_step", 100, 0>>, <<"fixed_step", 100, 100>>}}

\* plan_cpu_sim and plan_gpu_sim are pure: their verdicts on the facade's
\* EIRs and descriptors, computed once
CpuSimPlans == {[eir |-> e, dcd |-> d, plan |-> PlanCpuSim(e, d)] : e \in Eirs, d \in {CpuDcd}}

GpuSimPlans == {[eir |-> e, dcd |-> d, plan |-> PlanGpuSim(e, d)] : e \in Eirs, d \in GpuDcds}

\* the verdict recorded in plans for eir on the descriptor dcd
PlanOf(plans, eir, dcd) == (CHOOSE t \in plans : t.eir = eir /\ t.dcd = dcd).plan

\* CpuSimBackend.plan / GpuSimBackend.plan: validate_eir, then the planner
BackendPlan(name, eir, dcd) ==
    IF ~eir.valid
    THEN Outcome(FALSE, "ValueError", <<LogEntry("validate_eir", name, FALSE)>>, None)
    ELSE IF name = "cpu-sim" THEN PlanOutcome(name, PlanOf(CpuSimPlans, eir, dcd[name]))
    ELSE PlanOutcome(name, PlanOf(GpuSimPlans, eir, dcd[name]))

\* the plan is used as handed in, even when none was handed in
PlanAsGiven(name, eir, plan, dcd) == Outcome(TRUE, "", <<>>, plan)

\* if plan is None: plan = self.plan(eir)
PlanIfNone(name, eir, plan, dcd) ==
    IF plan = None THEN BackendPlan(name, eir, dcd) ELSE Outcome(TRUE, "", <<>>, plan)

\* Backend.run after the plan pl is settled: validate every input, then
\* run_cpu_sim / run_gpu_sim
RunWithPlan(name, pl, world) ==
    IF ~pl.ok THEN pl
    ELSE IF ~world.inputs_valid
    THEN Outcome(FALSE, "ValueError",
                 pl.log \o <<LogEntry("validate_inputs", name, FALSE)>>, pl.plan)
    ELSE Outcome(name \in world.executes,
                 IF name \in world.executes THEN "" ELSE "OSError",
                 pl.log \o <<LogEntry("validate_inputs", name, TRUE),
                             LogEntry("exec", name, name \in world.executes)>>,
                 pl.plan)

\* CpuSimBackend.run / GpuSimBackend.run
BackendRun(name, eir, plan, dcd, world) ==
    RunWithPlan(name, PlanIfNone(name, eir, plan, dcd), world)

-----------------------------------------------------------------------------
(* eventflow-core/__init__.py: compile_and_run;  eventflow-cli/ef.py: run *)

RECURSIVE AppendMissing(_, _)
\* for n in names: if n not in base: base.append(n)
AppendMissing(base, names) ==
    IF names = <<>> THEN base
    ELSE AppendMissing(IF InSeq(Head(names), base) THEN base ELSE Append(base, Head(names)),
                       Tail(names))

\* every candidate is the registry's first backend, whatever was asked for
PickFirstRegistered(reg, requested, prefer) == <<reg[1]>>

\* _pick_backends: explicit request or prefer list, then cpu-sim and
\* gpu-sim, then the registry's remainder, deduplicated in order
PickBackends(reg, requested, prefer) ==
    LET base == IF requested # "" /\ requested # "auto" THEN <<requested>>
                ELSE IF prefer # <<>> THEN prefer
                ELSE <<>>
    IN  AppendMissing(<<>>, AppendMissing(AppendMissing(base, <<"cpu-sim", "gpu-sim">>), reg))

\* be.plan(eir_obj) then be.run(eir_obj, inputs, trace_out, plan=plan_obj)
\* on the loaded backend
PlanThenRun(name, ld, pl, world) ==
    IF ~pl.ok THEN Outcome(FALSE, pl.err, ld.log \o pl.log, None)
    ELSE RunWithPlan(name, Outcome(TRUE, "", ld.log \o pl.log, pl.plan), world)

\* the body of one iteration of "for name in backend_order"
TryBackend(name, ld, eir, dcd, world) ==
    IF ~ld.ok THEN ld
    ELSE PlanThenRun(name, ld, BackendPlan(name, eir, dcd), world)

Result(status, backend, err, code) ==
    [status |-> status, backend |-> backend, err |-> err, code |-> code]

\* compile_and_run up to the loop: validate the EIR, pick the candidates
CompileAndRunStart ==
    /\ fc_entry = "compile_and_run"
    /\ fc_pc = "start"
    /\ IF ~fc_eir.valid
       THEN /\ fc_pc' = "raised"
            /\ fc_log' = Append(fc_log, LogEntry("validate_eir", "", FALSE))
            /\ fc_result' = Result("raised", "", "ValueError", -1)
            /\ UNCHANGED backend_order
       ELSE /\ fc_pc' = "loop"
            /\ fc_log' = Append(fc_log, LogEntry("validate_eir", "", TRUE))
            /\ backend_order' = PickBackends(ListBackends, fc_req, fc_prefer)
            /\ UNCHANGED fc_result
    /\ fc_idx' = 1
    /\ UNCHANGED <<fc_entry, fc_req, fc_prefer, fc_plan_in, fc_eir, fc_dcd, fc_world, notFacade>>

\* one iteration of the loop: load, plan, run; return on success, continue
\* on any exception
CompileAndRunTry ==
    /\ fc_entry = "compile_and_run"
    /\ fc_pc = "loop"
    /\ fc_idx <= Len(backend_order)
    /\ LET name == backend_order[fc_idx]
           r == TryBackend(name, LoadBackend(name, fc_world), fc_eir, fc_dcd, fc_world)
       IN  /\ fc_log' = fc_log \o r.log
           /\ IF r.ok
              THEN /\ fc_pc' = "returned"
                   /\ fc_result' = Result("ok", name, "", -1)
                   /\ UNCHANGED fc_idx
              ELSE /\ fc_idx' = fc_idx + 1
                   /\ UNCHANGED <<fc_pc, fc_result>>
    /\ UNCHANGED <<fc_entry, fc_req, fc_prefer, fc_plan_in, fc_eir, fc_dcd, fc_world,
                   backend_order, notFacade>>

\* the loop ran out of candidates: raise RuntimeError
CompileAndRunFail ==
    /\ fc_entry = "compile_and_run"
    /\ fc_pc = "loop"
    /\ fc_idx > Len(backend_order)
    /\ fc_pc' = "raised"
    /\ fc_result' = Result("raised", "", "RuntimeError", -1)
    /\ UNCHANGED <<fc_entry, fc_req, fc_prefer, fc_plan_in, fc_eir, fc_dcd, fc_world,
                   backend_order, fc_idx, fc_log, notFacade>>

\* a caller holding a loaded backend calls its run(), with or without a plan
BackendRunCall ==
    /\ fc_entry = "backend.run"
    /\ fc_pc = "start"
    /\ LET r == BackendRun(fc_req, fc_eir, fc_plan_in, fc_dcd, fc_world)
       IN  /\ fc_log' = fc_log \o r.log
           /\ fc_pc' = IF r.ok THEN "returned" ELSE "raised"
           /\ fc_result' = Result(IF r.ok THEN "ok" ELSE "raised", fc_req, r.err, -1)
    /\ UNCHANGED <<fc_entry, fc_req, fc_prefer, fc_plan_in, fc_eir, fc_dcd, fc_world,
                   backend_order, fc_idx, notFacade>>

\* cmd_run once the EIR and the optional plan file are read: load the
\* backend (an exception here ends the process with status 1), call run(),
\* exit 1 when it raises and 0 otherwise
CmdRun ==
    /\ fc_entry = "ef run"
    /\ fc_pc = "start"
    /\ LET ld == LoadBackend(fc_req, fc_world)
           r == IF ld.ok THEN BackendRun(fc_req, fc_eir, fc_plan_in, fc_dcd, fc_world) ELSE ld
       IN  /\ fc_log' = fc_log \o (IF ld.ok THEN ld.log \o r.log ELSE ld.log)
           /\ fc_result' = Result("exit", fc_req, r.err, IF r.ok THEN 0 ELSE 1)
    /\ fc_pc' = "exit"
    /\ UNCHANGED <<fc_entry, fc_req, fc_prefer, fc_plan_in, fc_eir, fc_dcd, fc_world,
                   backend_order, fc_idx, notFacade>>

NextFacade ==
    CompileAndRunStart \/ CompileAndRunTry \/ CompileAndRunFail \/ BackendRunCall \/ CmdRun

-----------------------------------------------------------------------------
(* Specification of the runtime facade *)

Worlds ==
    {[loadable |-> {"cpu-sim"} \cup gl, inputs_valid |-> iv, executes |-> ex] :
        gl \in SUBSET {"gpu-sim"}, iv \in BOOLEAN, ex \in SUBSET {"cpu-sim", "gpu-sim"}}

\* a plan written by an earlier "ef build", or any dict the caller passes
SuppliedPlan == [backend |-> "cpu-sim", dt_us |-> -1]

\* the calls made: compile_and_run with a backend or a prefer list,
\* Backend.run and "ef run" with or without a plan
Calls ==
    {[entry |-> "compile_and_run", req |-> r, prefer |-> <<>>, plan |-> None] :
        r \in {"auto", "cpu-sim", "gpu-sim", "x-sim"}}
    \cup {[entry |-> "compile_and_run", req |-> "auto", prefer |-> pf, plan |-> None] :
        pf \in {<<"gpu-sim">>, <<"gpu-sim", "gpu-sim", "cpu-sim">>, <<"x-sim", "cpu-sim">>}}
    \cup {[entry |-> "backend.run", req |-> r, prefer |-> <<>>, plan |-> pl] :
        r \in {"cpu-sim", "gpu-sim"}, pl \in {None, SuppliedPlan}}
    \cup {[entry |-> "ef run", req |-> r, prefer |-> <<>>, plan |-> pl] :
        r \in {"cpu-sim", "gpu-sim", "x-sim"}, pl \in {None, SuppliedPlan}}

InitFacade ==
    /\ \E c \in Calls :
          /\ fc_entry = c.entry
          /\ fc_req = c.req
          /\ fc_prefer = c.prefer
          /\ fc_plan_in = c.plan
    /\ fc_eir \in Eirs
    /\ fc_dcd \in {[name \in {"cpu-sim", "gpu-sim"} |->
                      IF name = "cpu-sim" THEN CpuDcd ELSE gd] : gd \in GpuDcds}
    /\ fc_world \in Worlds
    /\ fc_entry = "backend.run" => fc_req \in fc_world.loadable
    /\ fc_pc = "start"
    /\ backend_order = <<>>
    /\ fc_idx = 1
    /\ fc_log = <<>>
    /\ fc_result = Result("", "", "", -1)
    /\ LifIdle
    /\ BucketIdle
    /\ FuseIdle
    /\ SchedIdle
    /\ OpsIdle
    /\ PlanIdle
    /\ CmpIdle
    /\ TraceIdle
    /\ EirIdle
    /\ SerialIdle
    /\ KernelIdle
    /\ CliIdle
    /\ FlowIdle

SpecFacade == InitFacade /\ [][NextFacade]_vars

\* compile_and_run is sequential code: an enabled step is eventually taken
FairSpecFacade == SpecFacade /\ WF_vars(NextFacade)

-----------------------------------------------------------------------------
(* Claims about the runtime facade *)

\* the backend executed the EIR at position i of the history
ExecAt(i) == fc_log[i].op = "exec"

\* the planner was invoked for that backend earlier in the call and succeeded
PlannedBefore(i) ==
    \E j \in 1..(i - 1) : fc_log[j] = LogEntry("plan", fc_log[i].be, TRUE)

\* a planning failure on a backend is never followed by a run on it
FailedPlanBlocksRun ==
    \A j \in 1..Len(fc_log) :
        (fc_log[j].op = "plan" /\ ~fc_log[j].ok)
            => \A i \in (j + 1)..Len(fc_log) : ~(ExecAt(i) /\ fc_log[i].be = fc_log[j].be)

\* C4 as stated: no backend execution happens unless the planner was first
\* invoked and succeeded for that EIR on that backend, and a planning
\* failure prevents the run, on every entry path (compile_and_run,
\* Backend.run with or without a plan, the CLI's run).
C4_PlannerGatesEveryRun ==
    /\ \A i \in 1..Len(fc_log) : ExecAt(i) => PlannedBefore(i)
    /\ FailedPlanBlocksRun

\* C4 as amended: a backend executes only after the planner succeeded for
\* that EIR on that backend in the same call, or with a plan the caller
\* handed to Backend.run or to the CLI's run, in which case the planner is
\* not invoked at all; wherever the planner is invoked, its failure prevents
\* the run on that backend.
C4_PlannerGatesUnlessPlanSupplied ==
    /\ \A i \in 1..Len(fc_log) :
          ExecAt(i) => \/ PlannedBefore(i)
                       \/ fc_entry \in {"backend.run", "ef run"} /\ fc_plan_in # None
    /\ (fc_entry \in {"backend.run", "ef run"} /\ fc_plan_in # None)
          => \A i \in 1..Len(fc_log) : fc_log[i].op # "plan"
    /\ FailedPlanBlocksRun

\* compile_and_run: planning failed on cpu-sim, which then did not execute,
\* and gpu-sim executed after its own planning succeeded
C4_Witness ==
    /\ fc_entry = "compile_and_run"
    /\ fc_result.status = "ok"
    /\ InSeq(LogEntry("plan", "cpu-sim", FALSE), fc_log)
    /\ InSeq(LogEntry("plan", "gpu-sim", TRUE), fc_log)
    /\ fc_log[Len(fc_log)] = LogEntry("exec", "gpu-sim", TRUE)

RECURSIVE KeepFirst(_)
\* s without the repetitions of an earlier element
KeepFirst(s) ==
    IF s = <<>> THEN <<>>
    ELSE LET init == SubSeq(s, 1, Len(s) - 1)
         IN  IF InSeq(s[Len(s)], init) THEN KeepFirst(init)
             ELSE Append(KeepFirst(init), s[Len(s)])

\* the selection order: request or prefer list, cpu-sim, gpu-sim, the rest
SelectionOrder ==
    KeepFirst((IF fc_req # "auto" THEN <<fc_req>> ELSE fc_prefer)
              \o <<"cpu-sim", "gpu-sim">> \o ListBackends)

\* the backends tried so far, in the order of their loading
Tried ==
    LET loads == SelectSeq(fc_log, LAMBDA x : x.op = "load")
    IN  [i \in 1..Len(loads) |-> loads[i].be]

\* the history shows that loading, planning or running the backend failed
FailedOn(name) ==
    /\ \E i \in 1..Len(fc_log) : fc_log[i].be = name /\ ~fc_log[i].ok
    /\ ~InSeq(LogEntry("exec", name, TRUE), fc_log)

InLoop == fc_entry = "compile_and_run" /\ fc_pc # "start" /\ fc_eir.valid

\* C5: compile_and_run tries the candidates one at a time in selection
\* order, each at most once; it returns the first backend whose planning
\* and execution both succeed, raises RuntimeError only after every
\* candidate has failed, and always terminates.
C5_CandidatesInOrderFirstSuccess ==
    /\ [](InLoop => /\ backend_order = SelectionOrder
                    /\ Tried = SubSeq(backend_order, 1, Len(Tried))
                    /\ \A i, j \in 1..Len(Tried) : Tried[i] = Tried[j] => i = j)
    /\ []((InLoop /\ fc_pc = "returned") =>
             /\ fc_result.backend = Tried[Len(Tried)]
             /\ InSeq(LogEntry("plan", fc_result.backend, TRUE), fc_log)
             /\ fc_log[Len(fc_log)] = LogEntry("exec", fc_result.backend, TRUE)
             /\ \A i \in 1..(Len(Tried) - 1) : FailedOn(Tried[i]))
    /\ []((InLoop /\ fc_pc = "raised") =>
             /\ fc_result.err = "RuntimeError"
             /\ Tried = backend_order
             /\ \A i \in 1..Len(Tried) : FailedOn(Tried[i]))
    /\ (fc_entry = "compile_and_run") ~> (fc_pc \in {"returned", "raised"})

\* the unknown backend asked for and cpu-sim both failed, and gpu-sim, the
\* third candidate, returned the result
C5_Witness ==
    /\ fc_entry = "compile_and_run"
    /\ fc_req = "x-sim"
    /\ fc_pc = "returned"
    /\ Tried = <<"x-sim", "cpu-sim", "gpu-sim">>
    /\ fc_result.backend = "gpu-sim"

\* a validation of the EIR or of an input file failed at position i
ValidationFailedAt(i) ==
    fc_log[i].op \in {"validate_eir", "validate_inputs"} /\ ~fc_log[i].ok

\* C6: a validation error raised during compile_and_run (invalid EIR, or an
\* input file that fails validation) is surfaced to the caller and never
\* retried: after it no further backend is attempted.
C6_ValidationErrorNotRetried ==
    fc_entry = "compile_and_run" =>
        \A i \in 1..Len(fc_log) :
            ValidationFailedAt(i)
                => /\ i = Len(fc_log)
                   /\ fc_pc \in {"returned", "raised"} => fc_result.err = "ValueError"

\* what the code does: an invalid EIR is raised as ValueError before any
\* backend is tried; a failed input validation inside Backend.run is caught
\* like any other exception, and the loop goes on to the next candidate
InvalidEirSurfacedInputErrorRetried ==
    fc_entry = "compile_and_run" =>
        /\ (~fc_eir.valid /\ fc_pc # "start")
              => fc_pc = "raised" /\ fc_result.err = "ValueError" /\ Tried = <<>>
        /\ (fc_eir.valid /\ ~fc_world.inputs_valid /\ fc_pc \in {"returned", "raised"})
              => fc_result.err = "RuntimeError" /\ Tried = backend_order

-----------------------------------------------------------------------------
(* Specification of the capability planner *)

\* EIR_SCHEMA and the checks of validate_eir on the fields the planner
\* reads: the profile and mode enums, a positive dt in fixed_step mode, a
\* non-negative epsilon, at least one node, an op on the kinds that need it
EirSchemaValid(eir) ==
    /\ eir.profile \in {"BASE", "REALTIME", "LEARNING", "LOWPOWER"}
    /\ eir.mode \in {"exact_event", "fixed_step"}
    /\ eir.mode = "fixed_step" => eir.fixed_step_dt_us >= 1
    /\ eir.epsilon_time_us >= 0
    /\ Len(eir.nodes) >= 1
    /\ \A i \in DOMAIN eir.nodes :
          /\ eir.nodes[i].kind \in {"spiking_neuron", "synapse", "delay_line", "kernel",
                                    "group", "route", "probe", "custom"}
          /\ eir.nodes[i].kind \in {"spiking_neuron", "synapse", "kernel"}
                => eir.nodes[i].op # ""
    /\ eir.overflow_policy \in {"", "drop_head", "drop_tail", "block"}

Node(id, kind, op) == [id |-> id, kind |-> kind, op |-> op]

\* the node lists planned: supported and unsupported ops on the kinds that
\* need one, an op on kinds that need none, a node without op, no node
PlanNodeLists ==
    {<<>>,
     MinimalNodes,
     <<Node("n0", "spiking_neuron", "unknown_op_xyz")>>,
     <<Node("n0", "spiking_neuron", "lif"), Node("d0", "delay_line", "")>>,
     <<Node("c0", "custom", "warp"), Node("n0", "spiking_neuron", "lif")>>,
     <<Node("k0", "kernel", "conv"), Node("s0", "synapse", "exp_syn"),
       Node("k1", "kernel", "conv"), Node("n0", "spiking_neuron", "")>>}

\* the time configurations planned: (mode, fixed_step_dt_us, epsilon_time_us)
PlanTimeConfigs ==
    {<<"exact_event", -1, eps>> : eps \in {0, 1, 100}}
    \cup {<<"fixed_step", dt, eps>> : dt \in {55, 100, 101}, eps \in {0, 1}}

PlanEirs ==
    {[profile |-> pr, mode |-> tc[1], fixed_step_dt_us |-> tc[2],
      epsilon_time_us |-> tc[3], nodes |-> ns, overflow_policy |-> op] :
        pr \in {"", "BASE", "LEARNING"}, tc \in PlanTimeConfigs,
        ns \in PlanNodeLists, op \in {"", "drop_head"}}

PlanDcds ==
    {[conformance_profiles |-> {"BASE", "REALTIME"}, time_resolution_ns |-> r,
      supported_ops |-> {"lif", "exp_syn"}, deterministic_modes |-> dm,
      fixed_only |-> fo, overflow_behavior |-> "drop_tail"] :
        r \in {1000, 1100, 1500, 3000},
        dm \in {{"exact_event", "fixed_step"}, {"fixed_step"}},
        fo \in BOOLEAN}

InitPlanner ==
    /\ pl_eir \in PlanEirs
    /\ pl_dcd \in PlanDcds
    /\ pl_plan = None
    /\ pl_pc = "call"
    /\ LifIdle
    /\ BucketIdle
    /\ FuseIdle
    /\ SchedIdle
    /\ FacadeIdle
    /\ OpsIdle
    /\ CmpIdle
    /\ TraceIdle
    /\ EirIdle
    /\ SerialIdle
    /\ KernelIdle
    /\ CliIdle
    /\ FlowIdle

\* plan = plan_cpu_sim(eir, dcd)
PlanCall ==
    /\ pl_pc = "call"
    /\ pl_plan' = PlanCpuSim(pl_eir, pl_dcd)
    /\ pl_pc' = "done"
    /\ UNCHANGED <<pl_eir, pl_dcd, notPlan>>

NextPlanner == PlanCall

SpecPlanner == InitPlanner /\ [][NextPlanner]_vars

-----------------------------------------------------------------------------
(* Claims about the capability planner *)

\* the call has got past the profile check
ProfilePassed == pl_plan.err # "backend.unsupported_profile"

\* the positive multiple of the resolution nearest to the requested dt, in
\* ns: the quotient in exact arithmetic, rounded, and raised to 1
NearestMultipleNs ==
    pl_dcd.time_resolution_ns
        * Max(RoundHalfEven(pl_eir.fixed_step_dt_us * 1000, pl_dcd.time_resolution_ns), 1)

\* |dt_sel - dt_req| > epsilon_time_us, in ns
QuantizationExceeds ==
    Abs(NearestMultipleNs - pl_eir.fixed_step_dt_us * 1000) > pl_eir.epsilon_time_us * 1000

\* C16: in fixed_step mode the planner fails with
\* backend.time_quantization_violation exactly when the nearest positive
\* multiple of resolution_us = time_resolution_ns / 1000 lies further than
\* epsilon_time_us from the requested dt, and in exact_event mode exactly
\* when resolution_us / 2 > epsilon_time_us.
C16_QuantizationViolationExactly ==
    (pl_pc = "done" /\ ProfilePassed) =>
        /\ pl_eir.mode = "fixed_step" =>
              (pl_plan.err = "backend.time_quantization_violation" <=> QuantizationExceeds)
        /\ pl_eir.mode = "exact_event" =>
              (pl_plan.err = "backend.time_quantization_violation"
                 <=> pl_dcd.time_resolution_ns > 2000 * pl_eir.epsilon_time_us)

\* the example of the planner rejection: dt = 100 us, epsilon = 0 against a
\* resolution of 1500 ns fails
PlannerRejectionExample ==
    (/\ pl_pc = "done"
     /\ ProfilePassed
     /\ pl_eir.mode = "fixed_step"
     /\ pl_eir.fixed_step_dt_us = 100
     /\ pl_eir.epsilon_time_us = 0
     /\ pl_dcd.time_resolution_ns = 1500)
        => pl_plan.err = "backend.time_quantization_violation"

\* C17: for every valid EIR the planner accepts, the plan's dt_us is the
\* EIR's fixed_step_dt_us in fixed_step mode and None in exact_event mode.
C17_ScheduleDtIsRequestedDt ==
    (pl_pc = "done" /\ EirSchemaValid(pl_eir) /\ pl_plan.err = "") =>
        /\ pl_eir.mode = "fixed_step" => pl_plan.dt_us = pl_eir.fixed_step_dt_us
        /\ pl_eir.mode = "exact_event" => pl_plan.dt_us = -1

\* C18: the planner fails with backend.unsupported_profile if and only if
\* the EIR's profile is not a member of the DCD's conformance_profiles.
C18_UnsupportedProfileExactly ==
    pl_pc = "done" =>
        (pl_plan.err = "backend.unsupported_profile"
           <=> pl_eir.profile \notin pl_dcd.conformance_profiles)

\* the same for the EIRs that name a profile
ProfileRejectedWhenNamed ==
    (pl_pc = "done" /\ pl_eir.profile # "") =>
        (pl_plan.err = "backend.unsupported_profile"
           <=> pl_eir.profile \notin pl_dcd.conformance_profiles)

\* the time mode is one the device does not run deterministically
ModeUnsupported ==
    \/ pl_eir.mode \notin pl_dcd.deterministic_modes
    \/ pl_eir.mode = "exact_event" /\ pl_dcd.fixed_only

\* the positions of the nodes that have an op, and not one of supported_ops
UnsupportedAt ==
    {i \in DOMAIN pl_eir.nodes :
        pl_eir.nodes[i].op # "" /\ pl_eir.nodes[i].op \notin pl_dcd.supported_ops}

\* those of them whose kind needs an op
OpKindUnsupportedAt ==
    {i \in UnsupportedAt : pl_eir.nodes[i].kind \in {"spiking_neuron", "synapse", "kernel"}}

\* the same EIR without nodes, on the same device running every mode
\* deterministically
BareEir == [pl_eir EXCEPT !.nodes = <<>>]

AnyModeDcd ==
    [pl_dcd EXCEPT !.deterministic_modes = {"exact_event", "fixed_step"}, !.fixed_only = FALSE]

\* planning fails exactly as it does without the nodes and the mode limits
ModeAndOpsNeverFail == pl_plan.err = PlanCpuSim(BareEir, AnyModeDcd).err

\* the nodes at the positions S are those of emulated_nodes, and their ops
\* those of unsupported_ops
EmulatedAre(S) ==
    /\ {pl_plan.emulated_nodes[i] : i \in DOMAIN pl_plan.emulated_nodes}
          = {pl_eir.nodes[i] : i \in S}
    /\ pl_plan.unsupported_ops = {pl_eir.nodes[i].op : i \in S}

\* a mode mismatch adds a warning
ModeWarned == ModeUnsupported => InSeq("time_mode", pl_plan.warnings)

\* C19 as stated: every node whose op is not in supported_ops is emulated
C19_Original ==
    pl_pc = "done" =>
        /\ ModeAndOpsNeverFail
        /\ pl_plan.err = "" =>
              /\ pl_plan.emulated <=> (ModeUnsupported \/ UnsupportedAt # {})
              /\ EmulatedAre(UnsupportedAt)
              /\ ModeWarned

\* C19: an unsupported time mode or operator never makes planning fail; the
\* partition is emulated exactly when the mode is unsupported or some node
\* of kind spiking_neuron, synapse or kernel has an op outside
\* supported_ops; those nodes are the emulated_nodes, their ops the
\* unsupported_ops, and a mode mismatch adds a warning.
C19_EmulatedExactlyWhenUnsupported ==
    pl_pc = "done" =>
        /\ ModeAndOpsNeverFail
        /\ pl_plan.err = "" =>
              /\ pl_plan.emulated <=> (ModeUnsupported \/ OpKindUnsupportedAt # {})
              /\ EmulatedAre(OpKindUnsupportedAt)
              /\ ModeWarned

\* a plan for a supported mode with two kernels emulated for one op, next
\* to a node whose op goes unchecked
C19_Witness ==
    /\ pl_pc = "done"
    /\ pl_plan.err = ""
    /\ pl_eir.profile = "BASE"
    /\ ~ModeUnsupported
    /\ Len(pl_plan.emulated_nodes) = 2
    /\ pl_plan.unsupported_ops = {"conv"}
    /\ pl_plan.emulated
    /\ Len(pl_eir.nodes) = 4

-----------------------------------------------------------------------------
(* conformance/comparator.py: the trace comparator *)

\* A trace is the time unit of its header and its records; a record is
\* (ts, idx, val) as _read_records returns it, with whole-numbered values,
\* which float() converts exactly.  eps_numeric is the decimal n / d the
\* caller writes, and the double nearest to it in the comparison.

Trace(unit, recs) == [unit |-> unit, recs |-> recs]

Rec(ts, idx, val) == [ts |-> ts, idx |-> idx, val |-> val]

\* the double 0.0
ZeroDouble == [m |-> <<>>, e |-> 0]

\* the double nearest to n / d, for n >= 0
DoubleOf(n, d) == IF n = 0 THEN ZeroDouble ELSE NearestDouble(BigOfInt(n), BigOfInt(d))

\* x > y for doubles x, y >= 0
DoubleGreater(x, y) ==
    IF x.e >= y.e THEN BigCmp(BigShl(x.m, x.e - y.e), y.m) > 0
    ELSE BigCmp(x.m, BigShl(y.m, y.e - x.e)) > 0

\* the candidate's lead over the golden timestamp, signed
TimeLead(rg, rc) == rc.ts - rg.ts

\* dt = abs(tsc - tsg)
TimeDelta(rg, rc) == Abs(rc.ts - rg.ts)

\* dv = abs(valc - valg) / max(1.0, abs(valg))
RelErr(rg, rc) == DoubleOf(Abs(rc.val - rg.val), Max(1, Abs(rg.val)))

\* (dt > eps_time_us) or (dv > eps_numeric) or (not idx_equal)
PairMismatch(rg, rc, eps_time_us, eps_numeric) ==
    \/ TimeDelta(rg, rc) > eps_time_us
    \/ DoubleGreater(RelErr(rg, rc), DoubleOf(eps_numeric.n, eps_numeric.d))
    \/ rg.idx # rc.idx

\* the number of entries first_mismatches keeps
FIRSTS_CAP == 20

\* an entry of firsts: the 0-based position and the deltas
RecordEntry(i, rg, rc) ==
    [kind |-> "record", i |-> i - 1, ts_golden |-> rg.ts, ts_candidate |-> rc.ts,
     dt_us |-> TimeDelta(rg, rc)]

\* the entry of a mismatch of the headers' time units
HeaderEntry(hg, hc) ==
    [kind |-> "header", field |-> "units.time", golden |-> hg, candidate |-> hc]

RECURSIVE CompareLoop(_, _, _, _, _, _)
\* for i in range(n): the pairs i, ..., n and what the loop has counted
CompareLoop(rg, rc, i, eps_time_us, eps_numeric, acc) ==
    IF i > Min(Len(rg), Len(rc)) THEN acc
    ELSE IF PairMismatch(rg[i], rc[i], eps_time_us, eps_numeric)
    THEN CompareLoop(rg, rc, i + 1, eps_time_us, eps_numeric,
                     [mismatches |-> acc.mismatches + 1,
                      firsts |-> IF Len(acc.firsts) < FIRSTS_CAP
                                 THEN Append(acc.firsts, RecordEntry(i, rg[i], rc[i]))
                                 ELSE acc.firsts])
    ELSE CompareLoop(rg, rc, i + 1, eps_time_us, eps_numeric, acc)

\* a result whose ok ignores the record counts
ResultIgnoringCounts(golden, candidate, acc) ==
    [ok |-> golden.unit = candidate.unit /\ acc.mismatches = 0,
     mismatch_count |-> acc.mismatches,
     first_mismatches |->
        IF acc.mismatches > 0 THEN acc.firsts
        ELSE IF golden.unit # candidate.unit
        THEN <<HeaderEntry(golden.unit, candidate.unit)>>
        ELSE <<>>,
     count_golden |-> Len(golden.recs),
     count_candidate |-> Len(candidate.recs)]

\* the result dict, given what the loop counted: record mismatches replace
\* the list that held the header entry
ResultOf(golden, candidate, acc) ==
    [ok |-> /\ golden.unit = candidate.unit
            /\ Len(golden.recs) = Len(candidate.recs)
            /\ acc.mismatches = 0,
     mismatch_count |-> acc.mismatches,
     first_mismatches |->
        IF acc.mismatches > 0 THEN acc.firsts
        ELSE IF golden.unit # candidate.unit
        THEN <<HeaderEntry(golden.unit, candidate.unit)>>
        ELSE <<>>,
     count_golden |-> Len(golden.recs),
     count_candidate |-> Len(candidate.recs)]

\* compare_traces_jsonl(golden_path, candidate_path, eps_time_us, eps_numeric)
CompareTracesJsonl(golden, candidate, eps_time_us, eps_numeric) ==
    ResultOf(golden, candidate,
             CompareLoop(golden.recs, candidate.recs, 1, eps_time_us, eps_numeric,
                         [mismatches |-> 0, firsts |-> <<>>]))

-----------------------------------------------------------------------------
(* Specification of the trace comparator *)

\* the longest trace compared
MaxRecs == 3

\* record k of the golden traces: ts = 0, 100, 200, ...
GoldenRec(k) == Rec(100 * (k - 1), <<k % 2>>, k)

\* what a candidate changes in a record: the timestamp, the index, the value
Changes ==
    {[dts |-> 0, didx |-> 0, dval |-> 0], [dts |-> 1, didx |-> 0, dval |-> 0],
     [dts |-> -1, didx |-> 0, dval |-> 0], [dts |-> 2, didx |-> 0, dval |-> 0],
     [dts |-> 0, didx |-> 1, dval |-> 0], [dts |-> 0, didx |-> 0, dval |-> 1]}

Changed(r, c) == Rec(r.ts + c.dts, <<r.idx[1] + c.didx>>, r.val + c.dval)

GoldenTraces(unit) ==
    {Trace(unit, [k \in 1..n |-> GoldenRec(k)]) : n \in {MaxRecs - 1, MaxRecs}}

CandidateTraces(unit) ==
    UNION {{Trace(unit, [k \in 1..n |-> Changed(GoldenRec(k), cs[k])]) :
                cs \in [1..n -> Changes]} : n \in 0..MaxRecs}

\* the longest of the traces that overflow first_mismatches
LongRecs == 22

\* a long golden trace
LongGoldenTraces(unit) ==
    {Trace(unit, [k \in 1..n |-> GoldenRec(k)]) : n \in {LongRecs - 1, LongRecs}}

\* a long candidate: the golden records, two ticks late from record p on
LongCandidateTraces(unit) ==
    {Trace(unit, [k \in 1..n |-> IF k >= p THEN Changed(GoldenRec(k), [dts |-> 2, didx |-> 0, dval |-> 0])
                                 ELSE GoldenRec(k)]) :
        n \in {LongRecs - 1, LongRecs}, p \in {1, 2, 3, LongRecs + 1}}

\* the time units of the two headers
UnitPairs == {<<"us", "us">>, <<"ms", "ms">>, <<"ns", "ns">>, <<"us", "ms">>}

\* the tolerances: epsilon_numeric as the decimals 0, 1e-5 and 0.5
EpsNumerics == {[n |-> 0, d |-> 1], [n |-> 1, d |-> 100000], [n |-> 1, d |-> 2]}

InitComparator ==
    /\ \E u \in UnitPairs :
          \/ /\ cmp_golden \in GoldenTraces(u[1])
             /\ cmp_candidate \in CandidateTraces(u[2])
          \/ /\ cmp_golden \in LongGoldenTraces(u[1])
             /\ cmp_candidate \in LongCandidateTraces(u[2])
    /\ cmp_eps_time_us \in {0, 1}
    /\ cmp_eps_numeric \in EpsNumerics
    /\ cmp_result = None
    /\ cmp_pc = "call"
    /\ LifIdle
    /\ BucketIdle
    /\ FuseIdle
    /\ SchedIdle
    /\ FacadeIdle
    /\ OpsIdle
    /\ PlanIdle
    /\ TraceIdle
    /\ EirIdle
    /\ SerialIdle
    /\ KernelIdle
    /\ CliIdle
    /\ FlowIdle

\* result = compare_traces_jsonl(...)
CompareCall ==
    /\ cmp_pc = "call"
    /\ cmp_result' = CompareTracesJsonl(cmp_golden, cmp_candidate, cmp_eps_time_us,
                                        cmp_eps_numeric)
    /\ cmp_pc' = "done"
    /\ UNCHANGED <<cmp_golden, cmp_candidate, cmp_eps_time_us, cmp_eps_numeric, notCmp>>

NextComparator == CompareCall

SpecComparator == InitComparator /\ [][NextComparator]_vars

-----------------------------------------------------------------------------
(* Claims about the trace comparator *)

\* the number of pairs compared
PairCount == Min(Len(cmp_golden.recs), Len(cmp_candidate.recs))

\* |val_c - val_g| / max(1, |val_g|) <= eps_numeric, in exact arithmetic
ValueWithin(rg, rc) ==
    Abs(rc.val - rg.val) * cmp_eps_numeric.d <= cmp_eps_numeric.n * Max(1, Abs(rg.val))

\* pair i matches: idx equal, |ts_c - ts_g| <= eps_time_us on the
\* timestamps as recorded, and the relative error within eps_numeric
PairMatches(i) ==
    /\ cmp_golden.recs[i].idx = cmp_candidate.recs[i].idx
    /\ Abs(cmp_candidate.recs[i].ts - cmp_golden.recs[i].ts) <= cmp_eps_time_us
    /\ ValueWithin(cmp_golden.recs[i], cmp_candidate.recs[i])

\* two traces of three records with one time unit that differ only by one
\* tick on each timestamp
OffByOneTraces ==
    /\ cmp_golden.unit = cmp_candidate.unit
    /\ Len(cmp_golden.recs) = 3
    /\ Len(cmp_candidate.recs) = 3
    /\ \A i \in 1..3 :
          /\ Abs(cmp_candidate.recs[i].ts - cmp_golden.recs[i].ts) = 1
          /\ cmp_candidate.recs[i].idx = cmp_golden.recs[i].idx
          /\ cmp_candidate.recs[i].val = cmp_golden.recs[i].val

\* C20: records are compared pairwise in file order; pair i matches if and
\* only if idx is equal, |ts_c - ts_g| <= eps_time_us and
\* |val_c - val_g| / max(1, |val_g|) <= eps_numeric; mismatch_count is the
\* number of non-matching pairs, the positions of the first FIRSTS_CAP of
\* them are listed in order, and
\* traces of three records off by one on each timestamp give ok = true with
\* eps_time_us = 1 and mismatch_count = 3 with eps_time_us = 0.
C20_PairwiseTolerance ==
    cmp_pc = "done" =>
        /\ cmp_result.mismatch_count = Cardinality({i \in 1..PairCount : ~PairMatches(i)})
        /\ cmp_result.mismatch_count > 0 =>
              /\ Len(cmp_result.first_mismatches)
                    = Min(cmp_result.mismatch_count, FIRSTS_CAP)
              /\ \A k \in DOMAIN cmp_result.first_mismatches :
                    /\ ~PairMatches(cmp_result.first_mismatches[k].i + 1)
                    /\ k > 1 => cmp_result.first_mismatches[k - 1].i
                                    < cmp_result.first_mismatches[k].i
        /\ OffByOneTraces =>
              /\ cmp_eps_time_us = 1 => cmp_result.ok
              /\ cmp_eps_time_us = 0 => cmp_result.mismatch_count = 3

\* the example: three records off by one, all mismatching with eps_time_us = 0
C20_Witness ==
    /\ cmp_pc = "done"
    /\ OffByOneTraces
    /\ cmp_golden.unit = "us"
    /\ cmp_eps_time_us = 0
    /\ cmp_eps_numeric.n = 0
    /\ cmp_result.mismatch_count = 3
    /\ ~cmp_result.ok

\* the nanoseconds in one tick of a header's time unit
TickNs(unit) == IF unit = "ns" THEN 1 ELSE IF unit = "us" THEN 1000 ELSE 1000000

\* |ts_c - ts_g| <= eps_time_us on timestamps converted to microseconds
\* through the header's unit
TimeWithinUs(rg, rc, unit) == Abs(rc.ts - rg.ts) * TickNs(unit) <= cmp_eps_time_us * 1000

\* pair i matches when its timestamps are converted to microseconds
PairMatchesUs(i) ==
    /\ cmp_golden.recs[i].idx = cmp_candidate.recs[i].idx
    /\ TimeWithinUs(cmp_golden.recs[i], cmp_candidate.recs[i], cmp_golden.unit)
    /\ ValueWithin(cmp_golden.recs[i], cmp_candidate.recs[i])

\* C21: the time tolerance applies to timestamps converted to microseconds
\* through the header's time unit: for two traces with the same unit (us, ms
\* or ns) the mismatching pairs are exactly those whose indices differ,
\* whose values differ by more than eps_numeric, or whose timestamps,
\* expressed in microseconds, differ by more than eps_time_us.
C21_TimeToleranceInMicroseconds ==
    (cmp_pc = "done" /\ cmp_golden.unit = cmp_candidate.unit) =>
        cmp_result.mismatch_count = Cardinality({i \in 1..PairCount : ~PairMatchesUs(i)})

\* with microsecond headers the ticks are microseconds and the statement holds
TimeToleranceOnMicrosecondTraces ==
    (cmp_pc = "done" /\ cmp_golden.unit = "us" /\ cmp_candidate.unit = "us") =>
        cmp_result.mismatch_count = Cardinality({i \in 1..PairCount : ~PairMatchesUs(i)})

\* first_mismatches holds the entry of the headers' time units
HasHeaderEntry ==
    \E k \in DOMAIN cmp_result.first_mismatches :
        /\ cmp_result.first_mismatches[k].kind = "header"
        /\ cmp_result.first_mismatches[k].field = "units.time"

\* C22: whenever the two headers' units.time differ, the result has
\* ok = false and first_mismatches contains a header entry for units.time,
\* whether or not any record pairs also mismatch.
C22_HeaderMismatchReported ==
    (cmp_pc = "done" /\ cmp_golden.unit # cmp_candidate.unit) =>
        /\ ~cmp_result.ok
        /\ HasHeaderEntry

\* differing units always give ok = false; the header entry is there when
\* no record pair mismatches
HeaderEntryUnlessRecordsMismatch ==
    (cmp_pc = "done" /\ cmp_golden.unit # cmp_candidate.unit) =>
        /\ ~cmp_result.ok
        /\ cmp_result.mismatch_count = 0 => HasHeaderEntry

\* the positions of the pairs that do not match
MismatchingPairs == {i \in 1..PairCount : ~PairMatches(i)}

\* the record entries of first_mismatches
RecordEntries ==
    SelectSeq(cmp_result.first_mismatches, LAMBDA e : e.kind = "record")

\* the earliest FIRSTS_CAP mismatching positions
EarliestMismatches ==
    {i \in MismatchingPairs : Cardinality({j \in MismatchingPairs : j <= i}) <= FIRSTS_CAP}

\* C23: ok is true if and only if the headers' time units are equal, the
\* traces hold the same number of records and no compared pair mismatches;
\* traces of differing lengths give ok = false with both record counts in
\* the summary; first_mismatches never holds more than 20 record entries,
\* and they are the earliest mismatching pairs in order.
C23_OkAndFirstMismatches ==
    cmp_pc = "done" =>
        /\ cmp_result.ok <=>
              /\ cmp_golden.unit = cmp_candidate.unit
              /\ Len(cmp_golden.recs) = Len(cmp_candidate.recs)
              /\ MismatchingPairs = {}
        /\ Len(cmp_golden.recs) # Len(cmp_candidate.recs) => ~cmp_result.ok
        /\ cmp_result.count_golden = Len(cmp_golden.recs)
        /\ cmp_result.count_candidate = Len(cmp_candidate.recs)
        /\ Len(RecordEntries) <= FIRSTS_CAP
        /\ {RecordEntries[k].i + 1 : k \in DOMAIN RecordEntries} = EarliestMismatches
        /\ \A k \in DOMAIN RecordEntries :
              k > 1 => RecordEntries[k - 1].i < RecordEntries[k].i

\* more than 20 pairs mismatch in traces of differing lengths: the first 20
\* are kept
C23_Witness ==
    /\ cmp_pc = "done"
    /\ Len(cmp_golden.recs) # Len(cmp_candidate.recs)
    /\ cmp_golden.unit = cmp_candidate.unit
    /\ cmp_result.mismatch_count > FIRSTS_CAP
    /\ Len(cmp_result.first_mismatches) = FIRSTS_CAP
    /\ cmp_result.first_mismatches[FIRSTS_CAP].i = FIRSTS_CAP - 1
    /\ ~cmp_result.ok

-----------------------------------------------------------------------------
(* eventflow-core/validators.py: Event Tensor JSONL validation *)

\* A trace file is its header line (dims and units.time; the other header
\* fields are present and well-typed) and the lines after it: records
\* (ts, idx, val) with an integer ts and a list idx, or blank lines.

\* a file of zero bytes
EmptyFile == [empty |-> TRUE]

Header(dims, time) == [dims |-> dims, time |-> time]

TraceFile(header, lines) == [header |-> header, lines |-> lines]

\* a line of white space
Blank == [blank |-> TRUE]

\* ValidationIssue(path=f"@line{line_no}/{field}")
Issue(line_no, field) == [line |-> line_no, field |-> field]

\* an issue whose path names no line
HeaderIssue(path) == [line |-> 0, field |-> path]

\* the values of units.time
TIME_UNITS == {"ns", "us", "ms"}

\* _schema_validate({"header": header, "records": []}, EVENT_TENSOR_SCHEMA):
\* with jsonschema the header's constraints, without it only the presence
\* of the two top-level keys
SchemaIssues(header, jsonschema) ==
    IF ~jsonschema THEN <<>>
    ELSE (IF header.dims = <<>> THEN <<HeaderIssue("$/header/dims")>> ELSE <<>>)
         \o (IF header.time \notin TIME_UNITS
             THEN <<HeaderIssue("$/header/units/time")>> ELSE <<>>)

\* if time_unit not in ("ns", "us", "ms")
TimeUnitIssues(header) ==
    IF header.time \notin TIME_UNITS THEN <<HeaderIssue("$.header/units/time")>> ELSE <<>>

\* if ts < last_ts
TsIssues(rec, line_no, last_ts) ==
    IF rec.ts < last_ts THEN <<Issue(line_no, "ts")>> ELSE <<>>

\* if len(dims) and len(idx) != len(dims)
IdxIssues(rec, line_no, dims) ==
    IF Len(dims) # 0 /\ Len(rec.idx) # Len(dims) THEN <<Issue(line_no, "idx")>> ELSE <<>>

RECURSIVE ScanRecords(_, _, _, _, _)
\* for line in f: lines i, ... of the file; the header was line 1
ScanRecords(lines, i, dims, last_ts, issues) ==
    IF i > Len(lines) THEN issues
    ELSE IF lines[i] = Blank THEN ScanRecords(lines, i + 1, dims, last_ts, issues)
    ELSE ScanRecords(lines, i + 1, dims, lines[i].ts,
                     issues \o TsIssues(lines[i], i + 1, last_ts)
                            \o IdxIssues(lines[i], i + 1, dims))

\* validate_event_tensor_jsonl_path(path)
ValidateEventTensorJsonlPath(file, jsonschema) ==
    IF file = EmptyFile THEN <<HeaderIssue("$")>>
    ELSE ScanRecords(file.lines, 1, file.header.dims, -1,
                     SchemaIssues(file.header, jsonschema) \o TimeUnitIssues(file.header))

-----------------------------------------------------------------------------
(* cpu_sim/executor.py: run_cpu_sim *)

\* _canonical_key(rec) = (ts, tuple(idx))
CanonicalKey(rec) == <<rec.ts, rec.idx>>

RECURSIVE TupleLess(_, _)
\* a < b on Python tuples of integers
TupleLess(a, b) ==
    IF b = <<>> THEN FALSE
    ELSE IF a = <<>> THEN TRUE
    ELSE IF Head(a) # Head(b) THEN Head(a) < Head(b)
    ELSE TupleLess(Tail(a), Tail(b))

\* keys compared on the timestamp alone
KeyLessByTime(k1, k2) == k1[1] < k2[1]

\* k1 < k2 on canonical keys
KeyLess(k1, k2) ==
    IF k1[1] # k2[1] THEN k1[1] < k2[1] ELSE TupleLess(k1[2], k2[2])

RECURSIVE InsertByKey(_, _)
\* r placed after the records whose key is not greater than its own
InsertByKey(sorted, r) ==
    IF sorted = <<>> THEN <<r>>
    ELSE IF KeyLess(CanonicalKey(r), CanonicalKey(Head(sorted))) THEN <<r>> \o sorted
    ELSE <<Head(sorted)>> \o InsertByKey(Tail(sorted), r)

RECURSIVE SortByKey(_)
\* records.sort(key=_canonical_key): list.sort is stable
SortByKey(recs) ==
    IF recs = <<>> THEN <<>>
    ELSE InsertByKey(SortByKey(SubSeq(recs, 1, Len(recs) - 1)), recs[Len(recs)])

\* the records of one input, blank lines skipped; an empty file has none
FileRecords(file) ==
    IF file = EmptyFile THEN <<>> ELSE SelectSeq(file.lines, LAMBDA l : l # Blank)

RECURSIVE ReadRecords(_)
\* for path in inputs: ... records.append((ts, idx, val))
ReadRecords(files) ==
    IF files = <<>> THEN <<>> ELSE FileRecords(Head(files)) \o ReadRecords(Tail(files))

\* dims when a header names none
DEFAULT_DIMS == <<"x", "y", "polarity">>

\* dims or ["x", "y", "polarity"]
DimsOrDefault(dims) == IF dims = <<>> THEN DEFAULT_DIMS ELSE dims

RECURSIVE FirstHeaderDims(_)
\* dims of the first input that has a header line
FirstHeaderDims(files) ==
    IF files = <<>> THEN <<>>
    ELSE IF Head(files) = EmptyFile THEN FirstHeaderDims(Tail(files))
    ELSE DimsOrDefault(Head(files).header.dims)

\* run_cpu_sim(plan, inputs, out_trace_path): the trace written and the
\* dict returned
RunCpuSim(files) ==
    [out |-> TraceFile(Header(DimsOrDefault(FirstHeaderDims(files)), "us"),
                       SortByKey(ReadRecords(files))),
     result |-> [status |-> "ok", count |-> Len(ReadRecords(files))]]

-----------------------------------------------------------------------------
(* Specification of trace validation and of the cpu-sim run *)

\* the most lines after the header, over the files of one call
MaxLines == 3

\* the records of the input files
InputRecs ==
    {Rec(1, <<0>>, 1), Rec(0, <<0>>, 2), Rec(0, <<0>>, 3), Rec(0, <<0, 1>>, 4),
     Rec(0, <<1>>, 5)}

\* the lines of the files validated
InputLines == InputRecs \cup {Blank}

\* the headers of the files validated
ValidatedHeaders ==
    {Header(<<"c">>, "us"), Header(<<"x", "y">>, "us"), Header(<<>>, "us"),
     Header(<<"c">>, "ms"), Header(<<"c">>, "s")}

\* two input files sharing the records recs, the first holding the first k
\* of them
SplitInputs(h1, h2, recs, k) ==
    <<IF h1 = EmptyFile THEN EmptyFile ELSE TraceFile(h1, SubSeq(recs, 1, Min(k, Len(recs)))),
      TraceFile(h2, SubSeq(recs, Min(k, Len(recs)) + 1, Len(recs)))>>

\* the input lists of a run
RunInputs ==
    {SplitInputs(h1, h2, recs, k) :
        h1 \in {Header(<<"c">>, "us"), Header(<<"x", "y">>, "ms"), Header(<<>>, "us")},
        h2 \in {Header(<<"c">>, "us"), Header(<<"x", "y">>, "us")},
        recs \in SeqsUpTo(InputRecs, MaxLines), k \in 0..MaxLines}
    \cup {SplitInputs(EmptyFile, h2, recs, 0) :
        h2 \in {Header(<<"c">>, "us")}, recs \in SeqsUpTo(InputRecs, MaxLines)}

InitTraces ==
    /\ \/ /\ tr_entry = "validate"
          /\ tr_inputs \in {<<TraceFile(h, lines)>> :
                                h \in ValidatedHeaders, lines \in SeqsUpTo(InputLines, MaxLines)}
          /\ tr_jsonschema \in BOOLEAN
       \/ /\ tr_entry = "run_cpu_sim"
          /\ tr_inputs \in RunInputs
          /\ tr_jsonschema = FALSE
       \/ /\ tr_entry = "backend.run"
          /\ tr_inputs \in RunInputs
          /\ tr_jsonschema \in BOOLEAN
    /\ tr_out = None
    /\ tr_result = None
    /\ tr_issues = <<>>
    /\ tr_pc = "call"
    /\ LifIdle
    /\ BucketIdle
    /\ FuseIdle
    /\ SchedIdle
    /\ FacadeIdle
    /\ OpsIdle
    /\ PlanIdle
    /\ CmpIdle
    /\ EirIdle
    /\ SerialIdle
    /\ KernelIdle
    /\ CliIdle
    /\ FlowIdle

\* issues = validate_event_tensor_jsonl_path(path)
ValidateCall ==
    /\ tr_entry = "validate"
    /\ tr_pc = "call"
    /\ tr_issues' = ValidateEventTensorJsonlPath(tr_inputs[1], tr_jsonschema)
    /\ tr_pc' = "done"
    /\ UNCHANGED <<tr_entry, tr_inputs, tr_jsonschema, tr_out, tr_result, notTrace>>

\* run_cpu_sim(plan, inputs, out_trace_path)
RunCpuSimCall ==
    /\ tr_entry = "run_cpu_sim"
    /\ tr_pc = "call"
    /\ tr_out' = RunCpuSim(tr_inputs).out
    /\ tr_result' = RunCpuSim(tr_inputs).result
    /\ tr_pc' = "done"
    /\ UNCHANGED <<tr_entry, tr_inputs, tr_jsonschema, tr_issues, notTrace>>

\* CpuSimBackend.run once the plan is there: every input is validated, any
\* issue raises ValueError, then run_cpu_sim
BackendRunOnTraces ==
    /\ tr_entry = "backend.run"
    /\ tr_pc = "call"
    /\ IF \E i \in DOMAIN tr_inputs :
              ValidateEventTensorJsonlPath(tr_inputs[i], tr_jsonschema) # <<>>
       THEN /\ tr_result' = [status |-> "raised", err |-> "ValueError"]
            /\ tr_pc' = "raised"
            /\ UNCHANGED tr_out
       ELSE /\ tr_out' = RunCpuSim(tr_inputs).out
            /\ tr_result' = RunCpuSim(tr_inputs).result
            /\ tr_pc' = "written"
    /\ UNCHANGED <<tr_entry, tr_inputs, tr_jsonschema, tr_issues, notTrace>>

\* the caller validates the trace written
ValidateTraceOut ==
    /\ tr_entry = "backend.run"
    /\ tr_pc = "written"
    /\ tr_issues' = ValidateEventTensorJsonlPath(tr_out, tr_jsonschema)
    /\ tr_pc' = "done"
    /\ UNCHANGED <<tr_entry, tr_inputs, tr_jsonschema, tr_out, tr_result, notTrace>>

NextTraces == ValidateCall \/ RunCpuSimCall \/ BackendRunOnTraces \/ ValidateTraceOut

SpecTraces == InitTraces /\ [][NextTraces]_vars

-----------------------------------------------------------------------------
(* Claims about the cpu-sim run and trace validation *)

\* a precedes b lexicographically: at the first position where they differ
\* a has ended or holds the smaller integer
LexLess(a, b) ==
    \E k \in 1..Len(b) :
        /\ k <= Len(a) + 1
        /\ \A j \in 1..(k - 1) : a[j] = b[j]
        /\ k = Len(a) + 1 \/ a[k] < b[k]

\* the canonical key (ts, idx) of r is not greater than that of s
KeyNotGreater(r, s) ==
    \/ r.ts < s.ts
    \/ r.ts = s.ts /\ (r.idx = s.idx \/ LexLess(r.idx, s.idx))

\* the records of recs whose canonical key is that of r, in their order
WithKeyOf(recs, r) == SelectSeq(recs, LAMBDA s : s.ts = r.ts /\ s.idx = r.idx)

\* C24: the trace written by run_cpu_sim holds exactly the records of all
\* input traces (the returned count is the total number of input records,
\* none dropped or duplicated), ordered by the canonical key (ts, idx
\* compared lexicographically), records of equal key in their input order.
C24_CanonicalStableMerge ==
    (tr_entry = "run_cpu_sim" /\ tr_pc = "done") =>
        /\ tr_result.count = Len(ReadRecords(tr_inputs))
        /\ Len(tr_out.lines) = tr_result.count
        /\ \A i \in 1..(Len(tr_out.lines) - 1) :
              KeyNotGreater(tr_out.lines[i], tr_out.lines[i + 1])
        /\ \A i \in DOMAIN tr_out.lines :
              WithKeyOf(tr_out.lines, tr_out.lines[i])
                  = WithKeyOf(ReadRecords(tr_inputs), tr_out.lines[i])

\* three records were reordered, two of them with the same key and
\* different values
C24_Witness ==
    /\ tr_entry = "run_cpu_sim"
    /\ tr_pc = "done"
    /\ tr_result.count = 3
    /\ tr_out.lines # ReadRecords(tr_inputs)
    /\ Len(FileRecords(tr_inputs[1])) = 2
    /\ \E i \in 1..2 :
          /\ CanonicalKey(tr_out.lines[i]) = CanonicalKey(tr_out.lines[i + 1])
          /\ tr_out.lines[i].val # tr_out.lines[i + 1].val

\* every record of the trace file has one index per dim of its header, and
\* the timestamps never decrease
ArityAndOrderHold(file) ==
    /\ \A i \in DOMAIN file.lines : Len(file.lines[i].idx) = Len(file.header.dims)
    /\ \A i \in 1..(Len(file.lines) - 1) : file.lines[i].ts <= file.lines[i + 1].ts

\* C25: for any list of input traces that each pass Event Tensor JSONL
\* validation, a successful run writes an output trace that itself passes
\* validation with zero issues: every record's idx length equals the number
\* of dims in the output header and ts is non-decreasing.
C25_OutputTraceValidates ==
    (tr_entry = "backend.run" /\ tr_pc = "done") =>
        /\ tr_issues = <<>>
        /\ ArityAndOrderHold(tr_out)

\* the inputs' headers name the same dims, at least one
InputsShareDims ==
    \A i, j \in DOMAIN tr_inputs :
        /\ tr_inputs[i] # EmptyFile
        /\ tr_inputs[i].header.dims # <<>>
        /\ tr_inputs[j] # EmptyFile => tr_inputs[i].header.dims = tr_inputs[j].header.dims

\* the output validates when the inputs share their dims
OutputValidatesWhenInputsShareDims ==
    (tr_entry = "backend.run" /\ tr_pc = "done" /\ InputsShareDims) =>
        /\ tr_issues = <<>>
        /\ ArityAndOrderHold(tr_out)

\* the file validated and its lines after the header
ValidatedFile == tr_inputs[1]

\* the positions of the records among the lines
RecordLines == {i \in DOMAIN ValidatedFile.lines : ValidatedFile.lines[i] # Blank}

\* line i holds a record whose ts is lower than that of the record before it
TsDecreasesAt(i) ==
    \E j \in RecordLines :
        /\ j < i
        /\ \A k \in RecordLines : k < i => k <= j
        /\ ValidatedFile.lines[i].ts < ValidatedFile.lines[j].ts

\* line i holds a record whose idx length is not the header's number of dims
ArityDiffersAt(i) == Len(ValidatedFile.lines[i].idx) # Len(ValidatedFile.header.dims)

\* the number of issues that refer to the field of the line; the header is
\* line 1 of the file
IssuesAt(i, field) ==
    Cardinality({k \in DOMAIN tr_issues : tr_issues[k] = Issue(i + 1, field)})

\* C26: validate_event_tensor_jsonl_path reports one issue carrying the line
\* reference for every record whose ts is lower than the ts of the record
\* before it and for every record whose idx length differs from the
\* header's number of dims; scanning continues after a violation, so all
\* violations in the file are accumulated.
C26_EveryViolationReported ==
    (tr_entry = "validate" /\ tr_pc = "done") =>
        \A i \in RecordLines :
            /\ TsDecreasesAt(i) => IssuesAt(i, "ts") = 1
            /\ ArityDiffersAt(i) => IssuesAt(i, "idx") = 1

\* with a header that names at least one dim, the issues on records are
\* exactly the violations, one each
ViolationsReportedWhenDimsNamed ==
    (tr_entry = "validate" /\ tr_pc = "done" /\ ValidatedFile.header.dims # <<>>) =>
        \A i \in RecordLines :
            /\ IssuesAt(i, "ts") = IF TsDecreasesAt(i) THEN 1 ELSE 0
            /\ IssuesAt(i, "idx") = IF ArityDiffersAt(i) THEN 1 ELSE 0

-----------------------------------------------------------------------------
(* eventflow-core/validators.py: validate_eir *)

\* An EIR object is its time configuration, its nodes (id, kind, and the
\* delay of a delay_line) and its edges (src, dst); version, profile and
\* graph are present and well-typed.

EirNode(id, kind, delay_us) == [id |-> id, kind |-> kind, delay_us |-> delay_us]

EirEdge(src, dst) == [src |-> src, dst |-> dst]

\* ValidationIssue(path, message): the message's kind and the id it quotes
EirIssue(path, what, id) == [path |-> path, what |-> what, id |-> id]

\* _schema_validate(obj, EIR_SCHEMA): with jsonschema the constraints of
\* the schema (nodes has at least one item, fixed_step needs a dt >= 1),
\* without it only the presence of the required top-level keys
EirSchemaIssues(eir, jsonschema) ==
    IF ~jsonschema THEN <<>>
    ELSE (IF eir.mode = "fixed_step" /\ eir.fixed_step_dt_us < 1
          THEN <<EirIssue("$/time/fixed_step_dt_us", "minimum", "")>> ELSE <<>>)
         \o (IF eir.nodes = <<>> THEN <<EirIssue("$/nodes", "minItems", "")>> ELSE <<>>)

\* if mode == "fixed_step": if not isinstance(dt, int) or dt < 1
FixedStepIssues(eir) ==
    IF eir.mode = "fixed_step" /\ eir.fixed_step_dt_us < 1
    THEN <<EirIssue("$.time.fixed_step_dt_us", "positive", "")>> ELSE <<>>

\* a scan of the nodes that flags nothing
NoDuplicateIssues(nodes, i, ids) == <<>>

RECURSIVE DuplicateIssues(_, _, _)
\* for n in nodes: if nid in ids: issue; ids.add(nid)
DuplicateIssues(nodes, i, ids) ==
    IF i > Len(nodes) THEN <<>>
    ELSE (IF nodes[i].id \in ids
          THEN <<EirIssue("$.nodes", "duplicate", nodes[i].id)>> ELSE <<>>)
         \o DuplicateIssues(nodes, i + 1, ids \cup {nodes[i].id})

\* the set ids once the nodes are scanned
EirNodeIds(eir) == {eir.nodes[i].id : i \in DOMAIN eir.nodes}

RECURSIVE EndpointIssues(_, _, _)
\* for e in edges: if src_id not in ids: issue; if dst_id not in ids: issue
EndpointIssues(edges, i, ids) ==
    IF i > Len(edges) THEN <<>>
    ELSE (IF edges[i].src \notin ids
          THEN <<EirIssue("$.edges", "src", edges[i].src)>> ELSE <<>>)
         \o (IF edges[i].dst \notin ids
             THEN <<EirIssue("$.edges", "dst", edges[i].dst)>> ELSE <<>>)
         \o EndpointIssues(edges, i + 1, ids)

\* validate_eir(obj)
ValidateEir(eir, jsonschema) ==
    EirSchemaIssues(eir, jsonschema)
    \o FixedStepIssues(eir)
    \o DuplicateIssues(eir.nodes, 1, {})
    \o EndpointIssues(eir.edges, 1, EirNodeIds(eir))

-----------------------------------------------------------------------------
(* Specification of EIR validation *)

\* the most nodes of an EIR
MaxEirNodes == 3

\* the most edges of an EIR
MaxEirEdges == 2

\* the nodes: neurons a and b, and b as a delay line without and with delay
EirNodeChoices ==
    {EirNode("a", "spiking_neuron", 0), EirNode("b", "spiking_neuron", 0),
     EirNode("b", "delay_line", 0), EirNode("b", "delay_line", 5)}

\* the edges, among them a self-loop and endpoints that name no node
EirEdgeChoices ==
    {EirEdge("a", "a"), EirEdge("a", "b"), EirEdge("b", "a"), EirEdge("a", "z"),
     EirEdge("z", "b")}

\* the time configurations
EirTimeChoices == {<<"exact_event", 0>>, <<"fixed_step", 0>>}

InitEir ==
    /\ ve_eir \in {[mode |-> tc[1], fixed_step_dt_us |-> tc[2], nodes |-> ns, edges |-> es] :
                      tc \in EirTimeChoices,
                      ns \in SeqsUpTo(EirNodeChoices, MaxEirNodes),
                      es \in SeqsUpTo(EirEdgeChoices, MaxEirEdges)}
    /\ ve_jsonschema \in BOOLEAN
    /\ ve_issues = <<>>
    /\ ve_pc = "call"
    /\ LifIdle
    /\ BucketIdle
    /\ FuseIdle
    /\ SchedIdle
    /\ FacadeIdle
    /\ OpsIdle
    /\ PlanIdle
    /\ CmpIdle
    /\ TraceIdle
    /\ SerialIdle
    /\ KernelIdle
    /\ CliIdle
    /\ FlowIdle

\* compile_and_run: issues = validators.validate_eir(eir_obj); any issue
\* raises ValueError, none lets the call go on to backend selection and
\* planning
CompileAndRunValidate ==
    /\ ve_pc = "call"
    /\ ve_issues' = ValidateEir(ve_eir, ve_jsonschema)
    /\ ve_pc' = IF ValidateEir(ve_eir, ve_jsonschema) # <<>> THEN "raised" ELSE "planning"
    /\ UNCHANGED <<ve_eir, ve_jsonschema, notEir>>

NextEir == CompileAndRunValidate

SpecEir == InitEir /\ [][NextEir]_vars

-----------------------------------------------------------------------------
(* Claims about EIR validation *)

\* the ids of the delay_line nodes of eir with a positive delay
PositiveDelayLines(eir) ==
    {eir.nodes[i].id : i \in {j \in DOMAIN eir.nodes :
        eir.nodes[j].kind = "delay_line" /\ eir.nodes[j].delay_us > 0}}

\* some cycle of the edges passes through no delay_line with positive delay
HasDelaylessCycle(eir) ==
    HasCycleAmong(eir, EirNodeIds(eir) \ PositiveDelayLines(eir))

\* C27: EIR validation returns at least one issue for every EIR whose edges
\* form a cycle that does not pass through a delay_line with positive delay,
\* so such an EIR never reaches planning or execution through
\* compile_and_run.
C27_DelaylessCyclesRejected ==
    (ve_pc # "call" /\ HasDelaylessCycle(ve_eir)) =>
        /\ ve_issues # <<>>
        /\ ve_pc = "raised"

\* two nodes of eir share an id
HasDuplicateId(eir) ==
    \E i, j \in DOMAIN eir.nodes : i < j /\ eir.nodes[i].id = eir.nodes[j].id

\* an endpoint of some edge of eir is not the id of a node
HasUnknownEndpoint(eir) ==
    \E i \in DOMAIN eir.edges :
        eir.edges[i].src \notin EirNodeIds(eir) \/ eir.edges[i].dst \notin EirNodeIds(eir)

\* what the code does: the verdict depends on the time configuration, the
\* ids and the endpoints (and, with jsonschema, on there being a node), never
\* on the cycles of the graph
ValidationIgnoresCycles ==
    ve_pc # "call" =>
        (ve_pc = "planning" <=>
            /\ ~(ve_eir.mode = "fixed_step" /\ ve_eir.fixed_step_dt_us < 1)
            /\ ~HasDuplicateId(ve_eir)
            /\ ~HasUnknownEndpoint(ve_eir)
            /\ ve_jsonschema => ve_eir.nodes # <<>>)

\* the number of issues of one kind that quote the id
EirIssueCount(what, id) ==
    Cardinality({k \in DOMAIN ve_issues : ve_issues[k].what = what /\ ve_issues[k].id = id})

\* the number of nodes with the id
NodesWithId(id) == Cardinality({i \in DOMAIN ve_eir.nodes : ve_eir.nodes[i].id = id})

\* C28: validate_eir returns at least one issue for every EIR in which two
\* nodes share an id and for every EIR in which some edge's src or dst is
\* not the id of a node; each duplicate id and each unknown endpoint is
\* reported as its own issue.
C28_DuplicatesAndEndpointsReported ==
    ve_pc # "call" =>
        /\ HasDuplicateId(ve_eir) => ve_issues # <<>>
        /\ HasUnknownEndpoint(ve_eir) => ve_issues # <<>>
        /\ \A id \in EirNodeIds(ve_eir) :
              EirIssueCount("duplicate", id) = NodesWithId(id) - 1
        /\ \A i \in DOMAIN ve_eir.edges :
              /\ ve_eir.edges[i].src \notin EirNodeIds(ve_eir) =>
                    EirIssueCount("src", ve_eir.edges[i].src)
                        = Cardinality({j \in DOMAIN ve_eir.edges :
                                          ve_eir.edges[j].src = ve_eir.edges[i].src})
              /\ ve_eir.edges[i].dst \notin EirNodeIds(ve_eir) =>
                    EirIssueCount("dst", ve_eir.edges[i].dst)
                        = Cardinality({j \in DOMAIN ve_eir.edges :
                                          ve_eir.edges[j].dst = ve_eir.edges[i].dst})

\* three nodes named b and the edges a -> z and z -> b: two duplicates and
\* three unknown endpoints, five issues
C28_Witness ==
    /\ ve_pc = "raised"
    /\ ve_eir.mode = "exact_event"
    /\ NodesWithId("b") = 3
    /\ ve_eir.edges = <<EirEdge("a", "z"), EirEdge("z", "b")>>
    /\ EirIssueCount("duplicate", "b") = 2
    /\ EirIssueCount("src", "a") = 1
    /\ EirIssueCount("dst", "z") = 1
    /\ EirIssueCount("src", "z") = 1
    /\ Len(ve_issues) = 5

-----------------------------------------------------------------------------
(* eventflow_core/eir/ops.py, graph.py, serialize.py: save and load *)

\* A dataclass instance is the function from its field names to their
\* values (its __dict__), a dict a function from its keys.  An EIRGraph
\* is its nodes in insertion order (id and OpDef), its edges ((src, sport),
\* (dst, dport)) and its metadata.

\* the fields of the operator dataclasses after name, with their defaults
DataclassDefaults(kind) ==
    IF kind = "lif"
    THEN [tau_m |-> "10 ms", v_th |-> 1, v_reset |-> 0, r_m |-> 1, refractory |-> "2 ms"]
    ELSE IF kind = "exp_syn" THEN [tau_s |-> "5 ms", weight |-> 1]
    ELSE IF kind = "delay" THEN [delay |-> "1 ms"]
    ELSE [window |-> "50 ms", min_count |-> 2]

\* the kinds load knows among those modelled
LOAD_KINDS == {"lif", "exp_syn", "delay", "fuse"}

\* d1 updated with the items of d2
DictUpdate(d1, d2) ==
    [k \in DOMAIN d1 \cup DOMAIN d2 |-> IF k \in DOMAIN d2 THEN d2[k] ELSE d1[k]]

\* Cls(name, **kwargs) for the dataclass of the kind: the instance, or the
\* TypeError of a keyword that repeats name or names no field
Construct(kind, name, kwargs) ==
    IF "name" \in DOMAIN kwargs \/ ~(DOMAIN kwargs \subseteq DOMAIN DataclassDefaults(kind))
    THEN [err |-> "TypeError"]
    ELSE [err |-> "",
          self |-> DictUpdate(DictUpdate([name |-> name], DataclassDefaults(kind)), kwargs)]

\* as_op(): OpDef(kind, self.name, inputs, outputs, self.__dict__)
AsOp(kind, self) == [kind |-> kind, name |-> self.name, params |-> self]

GraphNode(id, op) == [id |-> id, op |-> op]

GraphEdge(src, sport, dst, dport) == [src |-> <<src, sport>>, dst |-> <<dst, dport>>]

EIRGraph(nodes, edges, metadata) == [nodes |-> nodes, edges |-> edges, metadata |-> metadata]

\* save(g, path): the object json.dump writes
Save(gr) ==
    [nodes |-> [i \in DOMAIN gr.nodes |->
                    [id |-> gr.nodes[i].id, kind |-> gr.nodes[i].op.kind,
                     name |-> gr.nodes[i].op.name, params |-> gr.nodes[i].op.params]],
     edges |-> [i \in DOMAIN gr.edges |-> [src |-> gr.edges[i].src, dst |-> gr.edges[i].dst]],
     metadata |-> gr.metadata]

RECURSIVE LoadNodes(_, _, _)
\* for nid, nd in obj["nodes"].items(): g.add_node(nid, kinds[...](...).as_op())
LoadNodes(nds, i, nodes) ==
    IF i > Len(nds) THEN [err |-> "", nodes |-> nodes]
    ELSE IF nds[i].kind \notin LOAD_KINDS THEN [err |-> "KeyError", nodes |-> nodes]
    ELSE IF Construct(nds[i].kind, nds[i].name, nds[i].params).err # ""
    THEN [err |-> Construct(nds[i].kind, nds[i].name, nds[i].params).err, nodes |-> nodes]
    ELSE LoadNodes(nds, i + 1,
                   Append(nodes, GraphNode(nds[i].id,
                       AsOp(nds[i].kind, Construct(nds[i].kind, nds[i].name, nds[i].params).self))))

\* load(path): the graph, or the exception raised while rebuilding a node
Load(obj) ==
    IF LoadNodes(obj.nodes, 1, <<>>).err # ""
    THEN [err |-> LoadNodes(obj.nodes, 1, <<>>).err]
    ELSE [err |-> "",
          graph |-> EIRGraph(LoadNodes(obj.nodes, 1, <<>>).nodes,
                             [i \in DOMAIN obj.edges |->
                                 GraphEdge(obj.edges[i].src[1], obj.edges[i].src[2],
                                           obj.edges[i].dst[1], obj.edges[i].dst[2])],
                             obj.metadata)]

-----------------------------------------------------------------------------
(* Specification of save and load *)

\* the most nodes of a saved graph
MaxSavedNodes == 2

\* the most edges of a saved graph
MaxSavedEdges == 2

\* operators built from the dataclasses, with default and with given fields
SavedOps ==
    {AsOp("lif", Construct("lif", "n", <<>>).self),
     AsOp("lif", Construct("lif", "n", [v_th |-> 2, tau_m |-> "5 ms"]).self),
     AsOp("exp_syn", Construct("exp_syn", "s", [weight |-> 3]).self),
     AsOp("delay", Construct("delay", "d", [delay |-> "2 ms"]).self),
     AsOp("fuse", Construct("fuse", "f", [min_count |-> 1]).self)}

\* the node lists: ids n1, n2, ... in insertion order
SavedNodeLists ==
    UNION {{[i \in 1..n |-> GraphNode(IF i = 1 THEN "n1" ELSE IF i = 2 THEN "n2" ELSE "n3",
                                      ops[i])] :
               ops \in [1..n -> SavedOps]} : n \in 0..MaxSavedNodes}

\* the edges between the first two nodes
SavedEdgeChoices ==
    {GraphEdge("n1", "spike", "n2", "in"), GraphEdge("n2", "out", "n1", "in"),
     GraphEdge("n1", "out", "n2", "a")}

InitSerial ==
    /\ sl_graph \in {EIRGraph(ns, es, md) :
                        ns \in SavedNodeLists,
                        es \in SeqsUpTo(SavedEdgeChoices, MaxSavedEdges),
                        md \in {<<>>, [author |-> "x"]}}
    /\ sl_obj = None
    /\ sl_result = None
    /\ sl_pc = "save"
    /\ LifIdle
    /\ BucketIdle
    /\ FuseIdle
    /\ SchedIdle
    /\ FacadeIdle
    /\ OpsIdle
    /\ PlanIdle
    /\ CmpIdle
    /\ TraceIdle
    /\ EirIdle
    /\ KernelIdle
    /\ CliIdle
    /\ FlowIdle

\* save(g, path)
SaveCall ==
    /\ sl_pc = "save"
    /\ sl_obj' = Save(sl_graph)
    /\ sl_pc' = "load"
    /\ UNCHANGED <<sl_graph, sl_result, notSerial>>

\* g2 = load(path)
LoadCall ==
    /\ sl_pc = "load"
    /\ sl_result' = Load(sl_obj)
    /\ sl_pc' = "done"
    /\ UNCHANGED <<sl_graph, sl_obj, notSerial>>

NextSerial == SaveCall \/ LoadCall

SpecSerial == InitSerial /\ [][NextSerial]_vars

-----------------------------------------------------------------------------
(* Claims about save and load *)

\* C29: for every graph built from the operator dataclasses, saving the
\* graph and loading it back succeeds and yields a graph with the same node
\* ids, operator kinds, names and parameters, the same edges in the same
\* order, and the same metadata.
C29_SaveLoadRoundTrip ==
    sl_pc = "done" =>
        /\ sl_result.err = ""
        /\ sl_result.graph = sl_graph

\* what the code does: load raises TypeError as soon as the graph has a
\* node, and returns the saved graph when it has none
LoadRaisesOnAnyNode ==
    sl_pc = "done" =>
        IF sl_graph.nodes = <<>>
        THEN sl_result.err = "" /\ sl_result.graph = sl_graph
        ELSE sl_result.err = "TypeError"

-----------------------------------------------------------------------------
(* runtime/exec.py, runtime/scheduler.py: kernels called on the pure-Python
   path with a parameter outside their domain *)

\* list(bucket(it)) for any integer dt_ns: the key of the first event is
\* computed before anything is yielded, and e[0] // 0 raises
BucketOrRaise(s, dt_ns) ==
    IF s = <<>> THEN [out |-> <<>>, err |-> ""]
    ELSE IF dt_ns = 0 THEN [out |-> <<>>, err |-> "ZeroDivisionError"]
    ELSE [out |-> Bucket(s, dt_ns), err |-> ""]

\* list(_fuse(it_a, it_b)) for any integer window: the TypeError of a heap
\* comparison is the only exception the generator can raise
FuseOrRaise(a, b, p) ==
    LET r == Fuse(a, b, p) IN
    [out |-> r.out, err |-> IF r.err THEN "TypeError" ELSE ""]

(* Specification of the kernels on parameters in and out of their domain *)

\* largest timestamp, longest stream and largest |parameter| of a call
MaxKernelT == 2
MaxKernelLen == 2
MaxKernelParam == 1

KernelParams == (0 - MaxKernelParam)..MaxKernelParam
KernelEvents == {Ev(t, 0, ONE, NoMeta) : t \in 0..MaxKernelT}
KernelStreams == {s \in SeqsUpTo(KernelEvents, MaxKernelLen) : NonDecreasing(Times(s))}

InitKernel ==
    /\ kp_call \in
          {[kernel |-> "bucket", param |-> d, minc |-> 0, a |-> a, b |-> <<>>] :
              d \in KernelParams, a \in KernelStreams}
          \cup
          {[kernel |-> "fuse", param |-> w, minc |-> m, a |-> a, b |-> b] :
              w \in KernelParams, m \in {1, 2}, a \in KernelStreams, b \in KernelStreams}
    /\ kp_result = None
    /\ kp_pc = "call"
    /\ LifIdle
    /\ BucketIdle
    /\ FuseIdle
    /\ SchedIdle
    /\ FacadeIdle
    /\ OpsIdle
    /\ PlanIdle
    /\ CmpIdle
    /\ TraceIdle
    /\ EirIdle
    /\ SerialIdle
    /\ CliIdle
    /\ FlowIdle

\* run_fixed_dt without the native extension: the bucket generator of one
\* input, consumed to its end
KernelBucketCall ==
    /\ kp_pc = "call"
    /\ kp_call.kernel = "bucket"
    /\ kp_result' = BucketOrRaise(kp_call.a, kp_call.param)
    /\ kp_pc' = "done"
    /\ UNCHANGED <<kp_call, notKernel>>

\* the fuse node built by build_exec_nodes without the native extension,
\* consumed to its end
KernelFuseCall ==
    /\ kp_pc = "call"
    /\ kp_call.kernel = "fuse"
    /\ kp_result' = FuseOrRaise(kp_call.a, kp_call.b,
                                [win |-> kp_call.param, minc |-> kp_call.minc])
    /\ kp_pc' = "done"
    /\ UNCHANGED <<kp_call, notKernel>>

NextKernel == KernelBucketCall \/ KernelFuseCall

SpecKernel == InitKernel /\ [][NextKernel]_vars

(* Claims about kernel domain errors *)

\* the call has returned or raised
KernelDone == kp_pc = "done"

\* the parameter is outside the kernel's domain
InvalidParam == kp_call # None /\ kp_call.param <= 0

\* the typed domain error of the kernel called
DomainError == IF kp_call.kernel = "bucket" THEN "BucketError" ELSE "FuseError"

\* C30: a kernel called with an invalid parameter (dt_ns <= 0 for bucketing,
\* window <= 0 for the fuse) raises its typed domain error, BucketError or
\* FuseError, and produces no output event
C30_InvalidParamsRaiseDomainError ==
    (KernelDone /\ InvalidParam) =>
        /\ kp_result.err = DomainError
        /\ kp_result.out = <<>>

\* what the pure-Python kernels do instead: no call ever raises a typed
\* domain error; the only exceptions are the ZeroDivisionError of dt_ns = 0
\* on a non-empty input and the TypeError of a heap comparison
NoDomainErrorOnPythonPath ==
    KernelDone =>
        /\ kp_result.err \in {"", "ZeroDivisionError", "TypeError"}
        /\ (kp_result.err = "ZeroDivisionError") <=>
              (kp_call.kernel = "bucket" /\ kp_call.param = 0 /\ kp_call.a # <<>>)

\* events are produced from an invalid parameter: a negative dt_ns buckets
\* the input, a zero window still reports simultaneous events
InvalidParamProducesOutput ==
    /\ KernelDone
    /\ InvalidParam
    /\ kp_result.err = ""
    /\ kp_result.out # <<>>

-----------------------------------------------------------------------------
(* Claims about step_stft *)

\* the stft operator has run on its input
StftDone == ops_pc = "done" /\ ops_op.kind = "stft"

\* the largest sample index an input event maps to, -1 on the empty input
LastSampleIndex ==
    LET idx == {SampleIndex(ops_a[i], ops_op.p.sample_rate_hz) : i \in 1..Len(ops_a)}
    IN  IF idx = {} THEN -1 ELSE CHOOSE m \in idx : \A k \in idx : k <= m

\* C32: the stft operator emits no frame on an input that holds fewer than
\* n_fft samples, whatever the timestamps of those samples are.
C32_NoFrameBelowNfftSamples ==
    (StftDone /\ Len(ops_a) < ops_op.p.n_fft) => ops_out = <<>>

\* what the code does satisfy: frames depend on the sample index the last
\* timestamp maps to, not on the number of samples; a frame is emitted
\* exactly when some sample has index n_fft - 1 or more
FramesFollowLastSampleIndex ==
    StftDone => (ops_out # <<>> <=> LastSampleIndex >= ops_op.p.n_fft - 1)

-----------------------------------------------------------------------------
(* Claims about the wiring of run_event_mode *)

\* the edges of the graph that end at node nid, as positions in g.edges
EdgesInto(nid) == {k \in 1..Len(g.edges) : g.edges[k].dst = nid}

\* node nid is an exp_syn fed by nothing but one edge into its declared port
SynapseOnDeclaredPort(nid) ==
    /\ OpOf(g, nid).kind = "exp_syn"
    /\ nid \notin DOMAIN inputs
    /\ Cardinality(EdgesInto(nid)) = 1
    /\ \A k \in EdgesInto(nid) : g.edges[k].dport = "pre" /\ g.edges[k].src # nid

\* C34: a single-input node consumes the events wired to the input port its
\* operator declares: an exp_syn node whose one upstream edge targets its
\* 'pre' port turns exactly the source node's output events into its own
\* output, not an empty stream.
C34_SynapseReceivesSourceOutput ==
    sched_pc = "returned" =>
        \A nid \in NodeIds(g) :
            SynapseOnDeclaredPort(nid) =>
                \A k \in EdgesInto(nid) :
                    outputs[nid] = StepExpSyn(outputs[g.edges[k].src],
                                              OpOf(g, nid).p.tau_s_ns, OpOf(g, nid).p.weight)

\* what the code does: the port "in" is always present, so node_iter reads
\* it and never "pre"; an exp_syn fed through 'pre' alone emits nothing
SynapseOnPreEmitsNothing ==
    sched_pc = "returned" =>
        \A nid \in NodeIds(g) : SynapseOnDeclaredPort(nid) => outputs[nid] = <<>>


\* the streams bound to port "in" of node nid: the external input, if any,
\* and the output of the source of every edge into that port
ProducersOfIn(nid) ==
    (IF nid \in DOMAIN inputs THEN {<<"input", nid>>} ELSE {})
    \cup {<<"edge", g.edges[k].src>> : k \in {j \in EdgesInto(nid) : g.edges[j].dport = "in"}}

\* the events of a producer
ProducedBy(pr) == IF pr[1] = "input" THEN inputs[pr[2]] ELSE outputs[pr[2]]

\* the position of node nid in the topological order
TopoPos(nid) == CHOOSE i \in 1..Len(topo) : topo[i] = nid

\* C35: when two or more producers are bound to the same input port of a
\* node (two edges into the port, or an external input and an edge into
\* "in"), the node receives the events of every producer: a delay node so
\* fed emits the delayed copy of every event of each of its producers.
C35_EveryProducerReceived ==
    sched_pc = "returned" =>
        \A nid \in NodeIds(g) :
            (OpOf(g, nid).kind = "delay" /\ Cardinality(ProducersOfIn(nid)) >= 2) =>
                \A pr \in ProducersOfIn(nid) :
                    LET d == StepDelay(ProducedBy(pr), OpOf(g, nid).p.delay_ns)
                    IN  \A i \in 1..Len(d) : InSeq(d[i], outputs[nid])

\* what the code does: each binding of a port replaces the one before, so a
\* delay node with edges into "in" emits the delayed output of the source
\* visited last and nothing of the other producers' streams
LastProducerWins ==
    sched_pc = "returned" =>
        \A nid \in NodeIds(g) :
            (OpOf(g, nid).kind = "delay" /\ \E pr \in ProducersOfIn(nid) : pr[1] = "edge") =>
                LET srcs == {pr[2] : pr \in {q \in ProducersOfIn(nid) : q[1] = "edge"}}
                    last == CHOOSE s \in srcs : \A r \in srcs : TopoPos(r) <= TopoPos(s)
                IN  outputs[nid] = StepDelay(outputs[last], OpOf(g, nid).p.delay_ns)

\* two producers on one port, one of them with events the node never got
ProducerDiscarded ==
    /\ sched_pc = "returned"
    /\ \E nid \in NodeIds(g) :
          /\ OpOf(g, nid).kind = "delay"
          /\ Cardinality(ProducersOfIn(nid)) >= 2
          /\ \E pr \in ProducersOfIn(nid) : ProducedBy(pr) # <<>> /\ outputs[nid] = <<>>

-----------------------------------------------------------------------------
(* Claims about a backend requested by name *)

\* compile_and_run was called with a backend name other than "auto"
NamedBackendCall == fc_entry = "compile_and_run" /\ fc_req # "auto"

\* C37: when compile_and_run is called with a specific backend name, either
\* the returned result's backend field is that backend or the call fails;
\* no other backend is used in its place.
C37_NamedBackendOrFailure ==
    (NamedBackendCall /\ fc_pc = "returned") => fc_result.backend = fc_req

\* what the code does: the requested name is only the first candidate; the
\* result names the candidate the loop stopped at, and that is another
\* backend only after the requested one failed to load, plan or run
NamedBackendIsFirstCandidate ==
    (NamedBackendCall /\ fc_pc = "returned") =>
        /\ backend_order[1] = fc_req
        /\ fc_result.backend = backend_order[fc_idx]
        /\ fc_result.backend # fc_req => fc_idx > 1

\* a call naming gpu-sim returned a result of cpu-sim
NamedBackendReplaced ==
    /\ NamedBackendCall
    /\ fc_pc = "returned"
    /\ fc_req = "gpu-sim"
    /\ fc_result.backend = "cpu-sim"

-----------------------------------------------------------------------------
(* eventflow-cli/ef.py: the commands and their exit status *)

\* a file named on the command line: well-formed and valid, well-formed
\* with validation issues, not JSON, or absent
FILE_STATES == {"valid", "invalid", "garbage", "missing"}

\* _read_json(path) raises: open() or json.load() fails
ReadJsonRaises(f) == f \in {"garbage", "missing"}

\* validators.validate_eir(obj) / validate_event_tensor_json(obj) return issues
ObjectHasIssues(f) == f = "invalid"

\* validators.validate_event_tensor_jsonl_path(path) returns issues: those
\* of the content, "file not found" for an absent file, "validation failed"
\* when a line is not JSON; it never raises
JsonlPathHasIssues(f) == f # "valid"

\* comp.compare_traces_jsonl raises: open() or json.loads() fails
CompareRaises(golden, candidate) ==
    golden \in {"garbage", "missing"} \/ candidate \in {"garbage", "missing"}

\* backend.run(eir_obj, inputs, trace_out, plan=plan) raises: the planner
\* rejects the EIR when no plan is given, an input has issues, or the
\* planning or execution fails
BackendRunRaises(a) ==
    \/ a.plan = "none" /\ ObjectHasIssues(a.a)
    \/ JsonlPathHasIssues(a.b)
    \/ ~a.executes

\* fmt = "jsonl" if path.lower().endswith(".jsonl") else "json", for auto
ResolvedFormat(a) ==
    IF a.fmt = "auto" THEN (IF a.ext = ".jsonl" THEN "jsonl" ELSE "json") ELSE a.fmt

\* sys.exit(0 if len(issues) == 0 else 1)
IssuesExit(has_issues) == IF has_issues THEN 1 ELSE 0

\* cmd_validate_eir
ExitValidateEir(a) ==
    IF ReadJsonRaises(a.a) THEN 2 ELSE IssuesExit(ObjectHasIssues(a.a))

\* cmd_validate_event
ExitValidateEvent(a) ==
    IF ResolvedFormat(a) = "jsonl" THEN IssuesExit(JsonlPathHasIssues(a.a))
    ELSE IF ReadJsonRaises(a.a) THEN 2
    ELSE IssuesExit(ObjectHasIssues(a.a))

\* cmd_validate_trace
ExitValidateTrace(a) == IssuesExit(JsonlPathHasIssues(a.a))

\* cmd_run; reg.load_backend is called outside any try, and a process ended
\* by an exception nobody catches has status 1
ExitRun(a) ==
    IF ReadJsonRaises(a.a) THEN 2
    ELSE IF ~a.loads THEN 1
    ELSE IF a.plan # "none" /\ ReadJsonRaises(a.plan) THEN 2
    ELSE IF BackendRunRaises(a) THEN 1
    ELSE 0

\* cmd_compare_traces; compare_traces_jsonl is called outside any try, and
\* a process ended by an exception nobody catches has status 1
ExitCompareTraces(a) ==
    IF CompareRaises(a.a, a.b) THEN 1
    ELSE IF a.same THEN 0 ELSE 1

(* Specification of the command line *)

CliArgs(cmd, fmt, ext, a, b, plan, loads, executes, same) ==
    [cmd |-> cmd, fmt |-> fmt, ext |-> ext, a |-> a, b |-> b, plan |-> plan,
     loads |-> loads, executes |-> executes, same |-> same]

\* the invocations: each command with its files in every state; a is the
\* EIR, the event file or the golden trace, b the input or the candidate
CliInvocations ==
    {CliArgs("validate-eir", "", "", a, "none", "none", TRUE, TRUE, TRUE) : a \in FILE_STATES}
    \cup {CliArgs("validate-event", fmt, ext, a, "none", "none", TRUE, TRUE, TRUE) :
             fmt \in {"auto", "json", "jsonl"}, ext \in {".json", ".jsonl"}, a \in FILE_STATES}
    \cup {CliArgs("validate-trace", "", "", a, "none", "none", TRUE, TRUE, TRUE) :
             a \in FILE_STATES}
    \cup {CliArgs("run", "", "", a, b, plan, loads, executes, TRUE) :
             a \in FILE_STATES, b \in FILE_STATES,
             plan \in {"none", "valid", "garbage", "missing"},
             loads \in BOOLEAN, executes \in BOOLEAN}
    \cup {CliArgs("compare-traces", "", "", a, b, "none", TRUE, TRUE, same) :
             a \in FILE_STATES, b \in FILE_STATES, same \in BOOLEAN}
    \cup {CliArgs(cmd, "", "", "none", "none", "none", TRUE, TRUE, TRUE) :
             cmd \in {"unknown-command", "run-without-input"}}

InitCli ==
    /\ cli_args \in CliInvocations
    /\ cli_exit = -1
    /\ cli_pc = "main"
    /\ LifIdle
    /\ BucketIdle
    /\ FuseIdle
    /\ SchedIdle
    /\ FacadeIdle
    /\ OpsIdle
    /\ PlanIdle
    /\ CmpIdle
    /\ TraceIdle
    /\ EirIdle
    /\ SerialIdle
    /\ KernelIdle
    /\ FlowIdle

\* each command runs to its sys.exit
CmdValidateEir ==
    /\ cli_pc = "main"
    /\ cli_args.cmd = "validate-eir"
    /\ cli_exit' = ExitValidateEir(cli_args)
    /\ cli_pc' = "exit"
    /\ UNCHANGED <<cli_args, notCli>>

CmdValidateEvent ==
    /\ cli_pc = "main"
    /\ cli_args.cmd = "validate-event"
    /\ cli_exit' = ExitValidateEvent(cli_args)
    /\ cli_pc' = "exit"
    /\ UNCHANGED <<cli_args, notCli>>

CmdValidateTrace ==
    /\ cli_pc = "main"
    /\ cli_args.cmd = "validate-trace"
    /\ cli_exit' = ExitValidateTrace(cli_args)
    /\ cli_pc' = "exit"
    /\ UNCHANGED <<cli_args, notCli>>

CmdRunOnFiles ==
    /\ cli_pc = "main"
    /\ cli_args.cmd = "run"
    /\ cli_exit' = ExitRun(cli_args)
    /\ cli_pc' = "exit"
    /\ UNCHANGED <<cli_args, notCli>>

CmdCompareTraces ==
    /\ cli_pc = "main"
    /\ cli_args.cmd = "compare-traces"
    /\ cli_exit' = ExitCompareTraces(cli_args)
    /\ cli_pc' = "exit"
    /\ UNCHANGED <<cli_args, notCli>>

\* p.parse_args() rejects the command line (an unknown command, or run
\* without its required --input): argparse exits with status 2
ParseArgsError ==
    /\ cli_pc = "main"
    /\ cli_args.cmd \in {"unknown-command", "run-without-input"}
    /\ cli_exit' = 2
    /\ cli_pc' = "exit"
    /\ UNCHANGED <<cli_args, notCli>>

NextCli ==
    CmdValidateEir \/ CmdValidateEvent \/ CmdValidateTrace \/ CmdRunOnFiles
        \/ CmdCompareTraces \/ ParseArgsError

SpecCli == InitCli /\ [][NextCli]_vars

-----------------------------------------------------------------------------
(* Claims about exit codes *)

\* the files the command was given
CliFiles ==
    IF cli_args.cmd \in {"validate-eir", "validate-event", "validate-trace"}
    THEN {cli_args.a}
    ELSE IF cli_args.cmd \in {"run", "compare-traces"}
    THEN {cli_args.a, cli_args.b} \cup ({cli_args.plan} \ {"none"})
    ELSE {}

\* the command line itself is wrong
UsageError == cli_args.cmd \in {"unknown-command", "run-without-input"}

\* every file given is there and is JSON
FilesReadable == CliFiles \subseteq {"valid", "invalid"}

\* a validation failure (of the file validated, of an input of run, of the
\* EIR run has to plan), a comparison failure, or a runtime error
CliFailure ==
    \/ /\ cli_args.cmd \in {"validate-eir", "validate-event", "validate-trace"}
       /\ cli_args.a = "invalid"
    \/ /\ cli_args.cmd = "run"
       /\ \/ cli_args.plan = "none" /\ cli_args.a = "invalid"
          \/ cli_args.b = "invalid"
          \/ ~cli_args.loads
          \/ ~cli_args.executes
    \/ cli_args.cmd = "compare-traces" /\ ~cli_args.same

\* nothing is wrong with the command line, its files or the run
CliSuccess == ~UsageError /\ FilesReadable /\ ~CliFailure

\* C33: every command exits with 0 on success, 1 on a validation or
\* comparison failure or a runtime error, and 2 on an I/O or usage error; a
\* missing input file passed to validate, run or compare-traces yields 2.
C33_ExitCodes ==
    cli_pc = "exit" =>
        /\ cli_exit \in {0, 1, 2}
        /\ CliSuccess => cli_exit = 0
        /\ UsageError => cli_exit = 2
        /\ "missing" \in CliFiles => cli_exit = 2
        /\ (~UsageError /\ FilesReadable /\ CliFailure) => cli_exit = 1

\* what the code does satisfy: the status is 0, 1 or 2, 0 on success, 2 on
\* a usage error, and 1 on a failure among readable files
ExitCodesOnReadableFiles ==
    cli_pc = "exit" =>
        /\ cli_exit \in {0, 1, 2}
        /\ CliSuccess => cli_exit = 0
        /\ UsageError => cli_exit = 2
        /\ (~UsageError /\ FilesReadable /\ CliFailure) => cli_exit = 1

\* a missing file yields 2 only where _read_json reads it; a missing JSONL
\* file given to validate-event or validate-trace, a missing input of run
\* and a missing trace of compare-traces yield 1
MissingFileExitsOne ==
    (cli_pc = "exit" /\ "missing" \in CliFiles) =>
        (cli_exit = 1 <=>
            \/ cli_args.cmd = "validate-trace"
            \/ cli_args.cmd = "validate-event" /\ ResolvedFormat(cli_args) = "jsonl"
            \/ cli_args.cmd = "compare-traces"
            \/ cli_args.cmd = "run" /\ ~ReadJsonRaises(cli_args.a)
                 /\ (~cli_args.loads \/ ~ReadJsonRaises(cli_args.plan)))

-----------------------------------------------------------------------------
(* eventflow-modules/vision/optical_flow.py: coincidence_flow_from_jsonl
   (the Python path) and the graph optical_flow builds *)

MaxFlowT == 2
MaxFlowLen == 2

\* _NS["us"]: nanoseconds in a microsecond
US == 1000

\* one event record of the file: {"ts": ts, "idx": [x, y, pol], "val": 1.0}
Dvs(ts, x, y, pol) == [ts |-> ts, x |-> x, y |-> y, pol |-> pol]

\* 0 <= x < width and 0 <= y < height and 0 <= pol <= 1
InFrame(e, p) ==
    /\ 0 <= e.x /\ e.x < p.width
    /\ 0 <= e.y /\ e.y < p.height
    /\ 0 <= e.pol /\ e.pol <= 1

\* the place list.sort(key=ts) gives e among the sorted records: after every
\* record whose ts is not larger
InsertByTs(sorted, e) ==
    LET k == Cardinality({i \in 1..Len(sorted) : sorted[i].ts <= e.ts})
    IN  SubSeq(sorted, 1, k) \o <<e>> \o SubSeq(sorted, k + 1, Len(sorted))

RECURSIVE SortByTs(_)
\* a_events.sort(key=lambda e: e["ts"])
SortByTs(s) ==
    IF s = <<>> THEN <<>> ELSE InsertByTs(SortByTs(SubSeq(s, 1, Len(s) - 1)), s[Len(s)])

\* a_events: the records inside the frame, sorted by ts
AEvents(in, p) == SortByTs(SelectSeq(in, LAMBDA e : InFrame(e, p)))

InsertInt(sorted, t) ==
    LET k == Cardinality({i \in 1..Len(sorted) : sorted[i] <= t})
    IN  SubSeq(sorted, 1, k) \o <<t>> \o SubSeq(sorted, k + 1, Len(sorted))

RECURSIVE SortedInts(_)
\* sorted(list of timestamps)
SortedInts(s) ==
    IF s = <<>> THEN <<>> ELSE InsertInt(SortedInts(SubSeq(s, 1, Len(s) - 1)), s[Len(s)])

RECURSIVE AMap(_, _)
\* a_map[key]: the ts of the records at the coordinate key = <<x, y, pol>>
AMap(evs, key) ==
    IF evs = <<>> THEN <<>>
    ELSE (IF <<Head(evs).x, Head(evs).y, Head(evs).pol>> = key
          THEN <<Head(evs).ts>> ELSE <<>>) \o AMap(Tail(evs), key)

RECURSIVE BMap(_, _, _)
\* b_map[key]: ts + eff_delay of the records one column to the west of key
\* (if x + 1 < width) and one column to the east of it (if x - 1 >= 0)
BMap(evs, key, p) ==
    IF evs = <<>> THEN <<>>
    ELSE LET e == Head(evs)
             b_ts == e.ts + (p.delay_us + p.edge_delay_us)
         IN  (IF e.x + 1 < p.width /\ <<e.x + 1, e.y, e.pol>> = key
              THEN <<b_ts>> ELSE <<>>)
             \o (IF e.x - 1 >= 0 /\ <<e.x - 1, e.y, e.pol>> = key
                 THEN <<b_ts>> ELSE <<>>)
             \o BMap(Tail(evs), key, p)

RECURSIVE FuseKey(_, _, _, _, _, _, _, _)
\* the while loop over one coordinate, from positions i, j (0-based) with the
\* deques qa, qb
FuseKey(va, vb, i, j, qa, qb, key, p) ==
    IF ~(i < Len(va) \/ j < Len(vb)) THEN <<>>
    ELSE LET take_a == j >= Len(vb) \/ (i < Len(va) /\ va[i + 1] <= vb[j + 1])
             t == IF take_a THEN va[i + 1] ELSE vb[j + 1]
             cutoff == t - p.window_us
             ba == DropWhileOlder(IF take_a THEN Append(qa, t) ELSE qa, cutoff)
             bb == DropWhileOlder(IF take_a THEN qb ELSE Append(qb, t), cutoff)
             emit == IF ba # <<>> /\ bb # <<>> /\ Len(ba) + Len(bb) >= p.min_count
                     THEN <<Dvs(t, key[1], key[2], key[3])>> ELSE <<>>
         IN  emit \o FuseKey(va, vb, IF take_a THEN i + 1 ELSE i,
                             IF take_a THEN j ELSE j + 1, ba, bb, key, p)

\* set(a_map.keys()) | set(b_map.keys())
FlowKeys(evs, p) ==
    {<<evs[i].x, evs[i].y, evs[i].pol>> : i \in 1..Len(evs)}
    \cup {<<evs[i].x + 1, evs[i].y, evs[i].pol>> :
             i \in {j \in 1..Len(evs) : evs[j].x + 1 < p.width}}
    \cup {<<evs[i].x - 1, evs[i].y, evs[i].pol>> :
             i \in {j \in 1..Len(evs) : evs[j].x - 1 >= 0}}

RECURSIVE FuseKeys(_, _, _)
\* "for key in keys": out after the loop; the order of the keys is that of a
\* Python set, and the sort that follows removes it
FuseKeys(keys, evs, p) ==
    IF keys = {} THEN <<>>
    ELSE LET key == CHOOSE k \in keys : TRUE
         IN  FuseKey(SortedInts(AMap(evs, key)), SortedInts(BMap(evs, key, p)),
                     0, 0, <<>>, <<>>, key, p)
             \o FuseKeys(keys \ {key}, evs, p)

\* (ts, x, y, pol) of a before that of b, as Python orders the key tuples
FlowKeyLess(a, b) ==
    \/ a.ts < b.ts
    \/ a.ts = b.ts /\ a.x < b.x
    \/ a.ts = b.ts /\ a.x = b.x /\ a.y < b.y
    \/ a.ts = b.ts /\ a.x = b.x /\ a.y = b.y /\ a.pol < b.pol

InsertByFlowKey(sorted, e) ==
    LET k == Cardinality({i \in 1..Len(sorted) : ~FlowKeyLess(e, sorted[i])})
    IN  SubSeq(sorted, 1, k) \o <<e>> \o SubSeq(sorted, k + 1, Len(sorted))

RECURSIVE SortByFlowKey(_)
\* out.sort(key=lambda e: (e["ts"], e["idx"][0], e["idx"][1], e["idx"][2]))
SortByFlowKey(s) ==
    IF s = <<>> THEN <<>>
    ELSE InsertByFlowKey(SortByFlowKey(SubSeq(s, 1, Len(s) - 1)), s[Len(s)])

\* coincidence_flow_from_jsonl(path, ...)[1] with as_arrays=False and no
\* native extension
CoincidenceFlow(in, p) ==
    SortByFlowKey(FuseKeys(FlowKeys(AEvents(in, p), p), AEvents(in, p), p))

\* the events given to node "xy": the record's time in nanoseconds and its
\* coordinates in meta, where step_xy_to_ch reads them
XyInput(in) ==
    [i \in 1..Len(in) |-> Ev(in[i].ts * US, 0, ONE, [x |-> in[i].x, y |-> in[i].y])]

\* run_event_mode(optical_flow(...), {"xy": ...}) at the fuse node fed by the
\* shift dx: xy -> a, and xy -> shift -> delay -> b
OpticalFlowSide(in, p, dx) ==
    LET ch == StepXyToCh(XyInput(in), p.width, p.height)
        shifted == StepShiftXy(ch, dx, 0, p.width, p.height)
        delayed == StepDelay(shifted, (p.delay_us + p.edge_delay_us) * US)
    IN  Fuse(ch, delayed, [win |-> p.window_us * US, minc |-> p.min_count])

\* the outputs of flow_e and flow_w
RunOpticalFlow(in, p) ==
    [flow_e |-> OpticalFlowSide(in, p, 1), flow_w |-> OpticalFlowSide(in, p, -1)]

FlowParams ==
    {[width |-> w, height |-> 1, window_us |-> win, delay_us |-> d,
      edge_delay_us |-> 0, min_count |-> mc] :
        w \in {2, 3}, win \in {1, 2}, d \in {0, 1}, mc \in {1, 2}}

\* the records a file can hold: three columns, the third of which lies
\* outside a frame of width 2
FlowRecords ==
    {Dvs(ts, x, 0, pol) : ts \in 0..MaxFlowT, x \in 0..2, pol \in {0, 1}}

\* files of a normalized trace: records in nondecreasing ts
FlowTraces ==
    {s \in UNION {[1..n -> FlowRecords] : n \in 0..MaxFlowLen} :
        \A i \in 1..(Len(s) - 1) : s[i].ts <= s[i + 1].ts}

InitFlow ==
    /\ flow_p \in FlowParams
    /\ flow_in \in FlowTraces
    /\ flow_out = None
    /\ flow_pipe = None
    /\ LifIdle
    /\ BucketIdle
    /\ FuseIdle
    /\ SchedIdle
    /\ FacadeIdle
    /\ OpsIdle
    /\ PlanIdle
    /\ CmpIdle
    /\ TraceIdle
    /\ EirIdle
    /\ SerialIdle
    /\ KernelIdle
    /\ CliIdle

\* hdr, events = coincidence_flow_from_jsonl(path, width, height, ...)
CoincidenceFlowFromJsonl ==
    /\ flow_p # None
    /\ flow_out = None
    /\ flow_out' = [events |-> CoincidenceFlow(flow_in, flow_p)]
    /\ UNCHANGED <<flow_in, flow_p, flow_pipe, notFlow>>

\* run_event_mode(optical_flow(None, window, min_count, params), {"xy": ...})
RunOpticalFlowGraph ==
    /\ flow_p # None
    /\ flow_pipe = None
    /\ flow_pipe' = RunOpticalFlow(flow_in, flow_p)
    /\ UNCHANGED <<flow_in, flow_p, flow_out, notFlow>>

NextFlow == CoincidenceFlowFromJsonl \/ RunOpticalFlowGraph

SpecFlow == InitFlow /\ [][NextFlow]_vars

-----------------------------------------------------------------------------
(* Claims about coincidence_flow_from_jsonl *)

FlowBothDone == flow_out # None /\ flow_pipe # None

\* the times, in nanoseconds, of the events the function returned
FlowOutTimes == {flow_out.events[i].ts * US : i \in 1..Len(flow_out.events)}

\* the times of the events the two fuse nodes gave
FlowPipeTimes ==
    {flow_pipe.flow_e.out[i].t : i \in 1..Len(flow_pipe.flow_e.out)}
    \cup {flow_pipe.flow_w.out[i].t : i \in 1..Len(flow_pipe.flow_w.out)}

\* C31: for every DVS trace, first and last pixel column included, and all
\* valid parameters, coincidence_flow_from_jsonl returns the events the
\* XY->channel -> ShiftXY(+1,0 and -1,0) -> Delay -> Fuse pipelines give
\* through the scheduler.  The pipeline's events carry channel 0 and no
\* coordinates, so the statement is taken in its weakest form: the two
\* results hold events at the same times.
C31_FlowEqualsPipeline == FlowBothDone => FlowOutTimes = FlowPipeTimes

\* the second half of the sentence: the list is ordered by (ts, x, y, pol)
FlowOutOrdered ==
    flow_out # None =>
        \A i \in 1..(Len(flow_out.events) - 1) :
            ~FlowKeyLess(flow_out.events[i + 1], flow_out.events[i])

\* a single record never makes the function emit: its shifted copies land on
\* other coordinates than its own
SingleRecordFlowEmpty == (flow_out # None /\ Len(flow_in) = 1) => flow_out.events = <<>>

\* a single record inside the frame makes both fuse nodes emit whenever the
\* delay fits the window, whatever its column
SingleRecordPipelineEmits ==
    (/\ flow_pipe # None
     /\ Len(flow_in) = 1
     /\ InFrame(flow_in[1], flow_p)
     /\ flow_p.delay_us + flow_p.edge_delay_us <= flow_p.window_us)
    => /\ flow_pipe.flow_e.out # <<>>
       /\ flow_pipe.flow_w.out # <<>>

=============================================================================
